---- MODULE Spec2Model ----
(***************************************************************************)
(* Model of scripts/extract-oci-image-urls:                                *)
(*   kro_helm_oci_summary.py          analyze_kro_mappings                 *)
(*   analyze_kro_helm_oci_mapping.py  KROAnalyzer                          *)
(*   update_component_constructors.py ImageMappingAnalyzer                 *)
(*                                                                         *)
(* Python strings are sequences of one-character strings, so that the      *)
(* regular expressions, substring tests, replacements and splits of the    *)
(* source are computed character by character.  None (and an absent        *)
(* mapping key) is the value None; a value that is neither a string nor    *)
(* None is the value NonString.  Both are one-element sequences whose      *)
(* element is no character, so that no string equals them.                 *)
(*                                                                         *)
(* Nine specifications share the variables; each one drives its own group  *)
(* and leaves the other groups at their initial value:                     *)
(*   SpecCorr  ImageMappingAnalyzer.find_correlations                      *)
(*   SpecKro   the classifier and the two chain resolvers                  *)
(*   SpecJoin  the same, on documents made for the join of the edge lists  *)
(*   SpecExpr  the expression extractors                                   *)
(*   SpecVer   ImageMappingAnalyzer._validate_semantic_version             *)
(*   SpecSim   find_correlations on pairs with similar chart names         *)
(*   SpecPat   find_correlations on one image and rows for steps 3 and 4   *)
(*   SpecUpd   main, update_component_constructors and the manifest        *)
(*             patcher _update_component_constructor_file                  *)
(*   SpecGrp   the grouping of update_component_constructors and the image *)
(*             resource it builds for each correlated image                *)
(***************************************************************************)
EXTENDS Integers, Sequences, FiniteSets, TLC

VARIABLES
    \* ImageMappingAnalyzer (find_correlations)
    helm_mappings,      \* self.helm_mappings: the exchange rows, in file order
    deployed_images,    \* self.deployed_images: the scan's images, in file order
    correlations,       \* the list find_correlations builds
    best_match,         \* index into helm_mappings of best_match, 0 for None
    match_reason,       \* the kind of match_reason
    img_idx,            \* position of the outer loop in deployed_images
    map_idx,            \* position of the inner loop in helm_mappings
    cpc,                \* where find_correlations stands
    \* RGD analysis (analyze_kro_mappings and KROAnalyzer)
    resources,          \* data['spec']['resources']
    summary,            \* what analyze_kro_mappings returned
    analysis,           \* what KROAnalyzer.print_analysis reported
    \* expression extractors
    expression,         \* the value handed to the extractors
    pieces,             \* the number of pieces the value was put together from
    extracted,          \* what each extractor did with it
    \* _validate_semantic_version
    version,            \* the input version string
    validated,          \* _validate_semantic_version(version)
    revalidated,        \* _validate_semantic_version(validated)
    vpc,                \* where the validation stands
    \* the update command (main, update_component_constructors, the patcher)
    files,              \* the manifests on disk, by app directory
    files_before,       \* the manifests on disk when this run started
    image_data,         \* image_data_list of the app element
    upc,                \* where the update command stands
    group_idx,          \* position of the loop over app_images
    updated_count,      \* updated_count of update_component_constructors
    reports,            \* what _update_component_constructor_file did, by call
    writes,             \* the app directories whose manifest this run wrote
    answer,             \* what was typed at the prompt of this run
    outcome,            \* how this run of the command ended
    run,                \* the number of the run of the command
    \* update_component_constructors: the grouping of the images
    to_group,           \* correlations: what find_correlations returned
    app_images,         \* app_images: the items of each app directory
    warnings,           \* the warnings printed by the grouping loop
    corr_idx,           \* position of the loop over the correlations
    gpc,                \* where the grouping stands
    patched             \* what the loop over app_images left behind

corrVars == <<helm_mappings, deployed_images, correlations, best_match,
              match_reason, img_idx, map_idx, cpc>>
kroVars  == <<resources, summary, analysis>>
exprVars == <<expression, pieces, extracted>>
verVars  == <<version, validated, revalidated, vpc>>
updVars  == <<files, files_before, image_data, upc, group_idx, updated_count,
              reports, writes, answer, outcome, run>>
grpVars  == <<to_group, app_images, warnings, corr_idx, gpc, patched>>
vars     == <<corrVars, kroVars, exprVars, verVars, updVars, grpVars>>

None      == <<"None">>
NonString == <<"NonString">>

(***************************************************************************)
(* Python string primitives                                                *)
(***************************************************************************)
Digits    == {"0","1","2","3","4","5","6","7","8","9"}
LowerCase == {"a","b","c","d","e","f","g","h","i","j","k","l","m",
              "n","o","p","q","r","s","t","u","v","w","x","y","z"}
UpperCase == {"A","B","C","D","E","F","G","H","I","J","K","L","M",
              "N","O","P","Q","R","S","T","U","V","W","X","Y","Z"}
Letters   == LowerCase \cup UpperCase
HexLower  == Digits \cup {"a","b","c","d","e","f"}
WhiteSpace == {" ", "\t", "\n"}

IsString(v) == v # None /\ v # NonString

Min(S) == CHOOSE x \in S : \A y \in S : x <= y

\* s.startswith(p)
StartsWith(s, p) == Len(s) >= Len(p) /\ SubSeq(s, 1, Len(p)) = p

\* p occurs in s at position i
OccursAt(s, p, i) == i >= 1 /\ i + Len(p) - 1 <= Len(s) /\ SubSeq(s, i, i + Len(p) - 1) = p

\* p in s
Contains(s, p) == \E i \in 1..(Len(s) + 1) : OccursAt(s, p, i)

\* s.replace(p, ''): every non-overlapping occurrence, from the left
RECURSIVE Remove(_, _)
Remove(s, p) ==
    IF s = <<>> THEN <<>>
    ELSE IF OccursAt(s, p, 1) THEN Remove(SubSeq(s, Len(p) + 1, Len(s)), p)
    ELSE <<Head(s)>> \o Remove(Tail(s), p)

\* set(s.split(sep)): the separator-delimited pieces, empty pieces included
SplitSet(s, sep) ==
    LET cuts == {0, Len(s) + 1} \cup {i \in 1..Len(s) : s[i] = sep}
    IN  {SubSeq(s, a + 1, b - 1) :
            <<a, b>> \in {p \in cuts \X cuts :
                            p[1] < p[2] /\ \A c \in cuts : ~(p[1] < c /\ c < p[2])}}

\* s.lower()
LowerChar(c) ==
    CASE c = "A" -> "a" [] c = "B" -> "b" [] c = "C" -> "c" [] c = "D" -> "d"
      [] c = "E" -> "e" [] c = "F" -> "f" [] c = "G" -> "g" [] c = "H" -> "h"
      [] c = "I" -> "i" [] c = "J" -> "j" [] c = "K" -> "k" [] c = "L" -> "l"
      [] c = "M" -> "m" [] c = "N" -> "n" [] c = "O" -> "o" [] c = "P" -> "p"
      [] c = "Q" -> "q" [] c = "R" -> "r" [] c = "S" -> "s" [] c = "T" -> "t"
      [] c = "U" -> "u" [] c = "V" -> "v" [] c = "W" -> "w" [] c = "X" -> "x"
      [] c = "Y" -> "y" [] c = "Z" -> "z" [] OTHER -> c
Lower(s) == [i \in 1..Len(s) |-> LowerChar(s[i])]

(***************************************************************************)
(* ImageMappingAnalyzer: the static tables                                 *)
(***************************************************************************)
\* variations of _are_chart_names_similar: <<base_name, variants>>
variations == {
    \* 'cert-manager': ['cert-manager-cainjector', 'cert-manager-webhook']
    <<<<"c","e","r","t","-","m","a","n","a","g","e","r">>,
      {<<"c","e","r","t","-","m","a","n","a","g","e","r","-","c","a","i","n","j","e","c","t","o","r">>,
       <<"c","e","r","t","-","m","a","n","a","g","e","r","-","w","e","b","h","o","o","k">>}>>,
    \* 'collabora-online': ['collabora']
    <<<<"c","o","l","l","a","b","o","r","a","-","o","n","l","i","n","e">>,
      {<<"c","o","l","l","a","b","o","r","a">>}>>,
    \* 'clamav-simple': ['clamav']
    <<<<"c","l","a","m","a","v","-","s","i","m","p","l","e">>,
      {<<"c","l","a","m","a","v">>}>>,
    \* 'ingress-nginx': ['nginx']
    <<<<"i","n","g","r","e","s","s","-","n","g","i","n","x">>,
      {<<"n","g","i","n","x">>}>>,
    \* 'opendesk-jitsi': ['jitsi']
    <<<<"o","p","e","n","d","e","s","k","-","j","i","t","s","i">>,
      {<<"j","i","t","s","i">>}>>,
    \* 'opendesk-nextcloud': ['nextcloud', 'aio', 'exporter']
    <<<<"o","p","e","n","d","e","s","k","-","n","e","x","t","c","l","o","u","d">>,
      {<<"n","e","x","t","c","l","o","u","d">>,
       <<"a","i","o">>,
       <<"e","x","p","o","r","t","e","r">>}>>,
    \* 'matrix-neoboard-widget': ['neoboard']
    <<<<"m","a","t","r","i","x","-","n","e","o","b","o","a","r","d","-","w","i","d","g","e","t">>,
      {<<"n","e","o","b","o","a","r","d">>}>>,
    \* 'matrix-neochoice-widget': ['neochoice']
    <<<<"m","a","t","r","i","x","-","n","e","o","c","h","o","i","c","e","-","w","i","d","g","e","t">>,
      {<<"n","e","o","c","h","o","i","c","e">>}>>,
    \* 'matrix-neodatefix-widget': ['neodatefix-widget']
    <<<<"m","a","t","r","i","x","-","n","e","o","d","a","t","e","f","i","x","-","w","i","d","g","e","t">>,
      {<<"n","e","o","d","a","t","e","f","i","x","-","w","i","d","g","e","t">>}>>,
    \* 'matrix-neodatefix-bot': ['neodatefix-bot']
    <<<<"m","a","t","r","i","x","-","n","e","o","d","a","t","e","f","i","x","-","b","o","t">>,
      {<<"n","e","o","d","a","t","e","f","i","x","-","b","o","t">>}>>,
    \* 'opendesk-element': ['element']
    <<<<"o","p","e","n","d","e","s","k","-","e","l","e","m","e","n","t">>,
      {<<"e","l","e","m","e","n","t">>}>>,
    \* 'opendesk-synapse': ['synapse']
    <<<<"o","p","e","n","d","e","s","k","-","s","y","n","a","p","s","e">>,
      {<<"s","y","n","a","p","s","e">>}>>,
    \* 'opendesk-synapse-web': ['synapse-web']
    <<<<"o","p","e","n","d","e","s","k","-","s","y","n","a","p","s","e","-","w","e","b">>,
      {<<"s","y","n","a","p","s","e","-","w","e","b">>}>>,
    \* 'opendesk-well-known': ['well-known']
    <<<<"o","p","e","n","d","e","s","k","-","w","e","l","l","-","k","n","o","w","n">>,
      {<<"w","e","l","l","-","k","n","o","w","n">>}>>,
    \* 'opendesk-static-files': ['static-files']
    <<<<"o","p","e","n","d","e","s","k","-","s","t","a","t","i","c","-","f","i","l","e","s">>,
      {<<"s","t","a","t","i","c","-","f","i","l","e","s">>}>>,
    \* 'opendesk-matrix-user-verification-service': ['matrix-user-verification']
    <<<<"o","p","e","n","d","e","s","k","-","m","a","t","r","i","x","-","u","s","e","r","-","v","e","r","i","f","i","c","a","t","i","o","n","-","s","e","r","v","i","c","e">>,
      {<<"m","a","t","r","i","x","-","u","s","e","r","-","v","e","r","i","f","i","c","a","t","i","o","n">>}>>
}

\* component_mappings of _matches_component_pattern: <<app_pattern, component>>
component_mappings == {
    \* 'ums': 'nubus'
    <<<<"u","m","s">>,
      <<"n","u","b","u","s">>>>,
    \* 'intercom': 'nubus'
    <<<<"i","n","t","e","r","c","o","m">>,
      <<"n","u","b","u","s">>>>,
    \* 'keycloak': 'nubus'
    <<<<"k","e","y","c","l","o","a","k">>,
      <<"n","u","b","u","s">>>>,
    \* 'nginx-s3-gateway': 'nubus'
    <<<<"n","g","i","n","x","-","s","3","-","g","a","t","e","w","a","y">>,
      <<"n","u","b","u","s">>>>,
    \* 'dovecot': 'open-xchange'
    <<<<"d","o","v","e","c","o","t">>,
      <<"o","p","e","n","-","x","c","h","a","n","g","e">>>>,
    \* 'open-xchange': 'open-xchange'
    <<<<"o","p","e","n","-","x","c","h","a","n","g","e">>,
      <<"o","p","e","n","-","x","c","h","a","n","g","e">>>>,
    \* 'ox-connector': 'open-xchange'
    <<<<"o","x","-","c","o","n","n","e","c","t","o","r">>,
      <<"o","p","e","n","-","x","c","h","a","n","g","e">>>>,
    \* 'nextcloud': 'nextcloud'
    <<<<"n","e","x","t","c","l","o","u","d">>,
      <<"n","e","x","t","c","l","o","u","d">>>>,
    \* 'element': 'element'
    <<<<"e","l","e","m","e","n","t">>,
      <<"e","l","e","m","e","n","t">>>>,
    \* 'synapse': 'element'
    <<<<"s","y","n","a","p","s","e">>,
      <<"e","l","e","m","e","n","t">>>>,
    \* 'matrix': 'element'
    <<<<"m","a","t","r","i","x">>,
      <<"e","l","e","m","e","n","t">>>>,
    \* 'collabora': 'collabora'
    <<<<"c","o","l","l","a","b","o","r","a">>,
      <<"c","o","l","l","a","b","o","r","a">>>>,
    \* 'cryptpad': 'cryptpad'
    <<<<"c","r","y","p","t","p","a","d">>,
      <<"c","r","y","p","t","p","a","d">>>>,
    \* 'jitsi': 'jitsi'
    <<<<"j","i","t","s","i">>,
      <<"j","i","t","s","i">>>>,
    \* 'openproject': 'openproject'
    <<<<"o","p","e","n","p","r","o","j","e","c","t">>,
      <<"o","p","e","n","p","r","o","j","e","c","t">>>>,
    \* 'xwiki': 'xwiki'
    <<<<"x","w","i","k","i">>,
      <<"x","w","i","k","i">>>>
}

(***************************************************************************)
(* ImageMappingAnalyzer: name normalisation and the four heuristics        *)
(***************************************************************************)
HelmChartPrefix == <<"h","e","l","m","-","c","h","a","r","t","-">>
OpendeskPrefix  == <<"o","p","e","n","d","e","s","k","-">>
OpendeskSuffix  == <<"-","o","p","e","n","d","e","s","k">>

\* re.sub(r'-[\d\.]+_[a-f0-9]+$', '', s): the leftmost '-' that starts a match
StripVersionHash(s) ==
    LET n == Len(s)
        starts == {i \in 1..n :
                     /\ s[i] = "-"
                     /\ \E j \in (i + 2)..(n - 1) :
                          /\ s[j] = "_"
                          /\ \A k \in (i + 1)..(j - 1) : s[k] \in Digits \cup {"."}
                          /\ \A k \in (j + 1)..n : s[k] \in HexLower}
    IN  IF starts = {} THEN s ELSE SubSeq(s, 1, Min(starts) - 1)

\* re.sub(r'-[\d\.]+$', '', s)
StripVersion(s) ==
    LET n == Len(s)
        starts == {i \in 1..(n - 1) :
                     /\ s[i] = "-"
                     /\ \A k \in (i + 1)..n : s[k] \in Digits \cup {"."}}
    IN  IF starts = {} THEN s ELSE SubSeq(s, 1, Min(starts) - 1)

_extract_chart_name_from_deployed(helm_chart) ==
    IF helm_chart = <<>> THEN <<>>
    ELSE StripVersion(StripVersionHash(helm_chart))

_extract_chart_name_from_resource(resource_name) ==
    IF resource_name = <<>> THEN <<>>
    ELSE IF StartsWith(resource_name, HelmChartPrefix)
         THEN SubSeq(resource_name, 12, Len(resource_name))
         ELSE resource_name

_normalize_app_instance_name(app_instance) ==
    IF app_instance = <<>> THEN <<>>
    ELSE LET normalized == Remove(Remove(app_instance, OpendeskPrefix), OpendeskSuffix)
         IN  IF normalized = <<"c","o","l","l","a","b","o","r","a","-","o","n","l","i","n","e">>
             THEN <<"c","o","l","l","a","b","o","r","a">>
             ELSE IF normalized = <<"c","l","a","m","a","v","-","s","i","m","p","l","e">>
             THEN <<"c","l","a","m","a","v">>
             ELSE IF normalized = <<"m","a","t","r","i","x","-","u","s","e","r","-","v","e","r","i","f","i","c","a","t","i","o","n","-","s","e","r","v","i","c","e">>
             THEN <<"m","a","t","r","i","x","-","u","s","e","r","-","v","e","r","i","f","i","c","a","t","i","o","n">>
             ELSE normalized

\* the alias table looked up with name1 as the key only
SimilarKeyFirst(name1, name2) ==
    \/ \E v \in variations :
          \/ name1 = v[1] /\ name2 \in v[2]
          \/ name1 \in v[2] /\ name2 \in v[2]
    \/ /\ Len(name1) > 3
       /\ Len(name2) > 3
       /\ (Contains(name2, name1) \/ Contains(name1, name2))

_are_chart_names_similar(name1, name2) ==
    \/ \E v \in variations :
          \/ name1 = v[1] /\ name2 \in v[2]
          \/ name2 = v[1] /\ name1 \in v[2]
          \/ name1 \in v[2] /\ name2 \in v[2]
    \/ /\ Len(name1) > 3
       /\ Len(name2) > 3
       /\ (Contains(name2, name1) \/ Contains(name1, name2))

\* the table looked up by its keys only
MatchesAnyComponent(app_instance, component_path) ==
    \E cm \in component_mappings : Contains(Lower(app_instance), cm[1])

_matches_component_pattern(app_instance, component_path) ==
    \E cm \in component_mappings :
        Contains(Lower(app_instance), cm[1]) /\ cm[2] = component_path

\* one common keyword is enough
MatchesOnOneKeyword(app_instance, resource_name) ==
    IF app_instance = <<>> \/ resource_name = <<>> THEN FALSE
    ELSE LET app_keywords      == SplitSet(Lower(app_instance), "-")
             resource_keywords == SplitSet(Remove(Lower(resource_name), HelmChartPrefix), "-")
         IN  Cardinality(app_keywords \cap resource_keywords) >= 1

_matches_resource_pattern(app_instance, resource_name) ==
    IF app_instance = <<>> \/ resource_name = <<>> THEN FALSE
    ELSE LET app_keywords      == SplitSet(Lower(app_instance), "-")
             resource_keywords == SplitSet(Remove(Lower(resource_name), HelmChartPrefix), "-")
             common            == Cardinality(app_keywords \cap resource_keywords)
             half2             == Cardinality(app_keywords)   \* twice len(app_keywords) * 0.5
         IN  \* len(common) >= min(2, len(app_keywords) * 0.5), both sides doubled
             2 * common >= (IF 4 <= half2 THEN 4 ELSE half2)

(***************************************************************************)
(* find_correlations                                                       *)
(***************************************************************************)
NoMatchFound  == "No match found"
DirectMatch   == "Direct chart name match"
SimilarMatch  == "Similar chart names"
ComponentMatch == "App instance component match"
ResourceMatch == "Resource pattern match"

\* One pass of the body of `for mapping in self.helm_mappings` for mapping
\* number k, entered with (best, reason): the values it leaves and whether it
\* left the loop by break.
ScanStepBroken(image, mapping, k, best, reason) ==
    LET deployed_chart_name     == _extract_chart_name_from_deployed(image.helm_chart)
        normalized_app_instance == _normalize_app_instance_name(image.app_instance)
        resource_chart_name     == _extract_chart_name_from_resource(mapping.resource_resource_name)
    IN  IF /\ deployed_chart_name # <<>> /\ resource_chart_name # <<>>
           /\ deployed_chart_name = resource_chart_name
        THEN [best |-> k, reason |-> DirectMatch, brk |-> TRUE]
        ELSE IF /\ deployed_chart_name # <<>> /\ resource_chart_name # <<>>
                /\ _are_chart_names_similar(deployed_chart_name, resource_chart_name)
        THEN [best |-> best, reason |-> SimilarMatch, brk |-> TRUE]
        ELSE [best |-> best, reason |-> reason, brk |-> FALSE]

\* Method 1 without `if deployed_chart_name and resource_chart_name`
ScanStepUnguarded(image, mapping, k, best, reason) ==
    LET deployed_chart_name     == _extract_chart_name_from_deployed(image.helm_chart)
        normalized_app_instance == _normalize_app_instance_name(image.app_instance)
        resource_chart_name     == _extract_chart_name_from_resource(mapping.resource_resource_name)
        m2 == IF /\ normalized_app_instance # <<>>
                 /\ mapping.resource_reference_path # <<>>
                 /\ _matches_component_pattern(normalized_app_instance,
                                               mapping.resource_reference_path)
                 /\ best = 0
              THEN [best |-> k, reason |-> ComponentMatch]
              ELSE [best |-> best, reason |-> reason]
        m3 == IF /\ image.app_instance # <<>>
                 /\ _matches_resource_pattern(image.app_instance,
                                              mapping.resource_resource_name)
                 /\ m2.best = 0
              THEN [best |-> k, reason |-> ResourceMatch]
              ELSE m2
    IN  IF deployed_chart_name = resource_chart_name
        THEN [best |-> k, reason |-> DirectMatch, brk |-> TRUE]
        ELSE IF /\ deployed_chart_name # <<>> /\ resource_chart_name # <<>>
                /\ _are_chart_names_similar(deployed_chart_name, resource_chart_name)
        THEN [best |-> k, reason |-> SimilarMatch, brk |-> TRUE]
        ELSE [best |-> m3.best, reason |-> m3.reason, brk |-> FALSE]

ScanStep(image, mapping, k, best, reason) ==
    LET deployed_chart_name     == _extract_chart_name_from_deployed(image.helm_chart)
        normalized_app_instance == _normalize_app_instance_name(image.app_instance)
        resource_chart_name     == _extract_chart_name_from_resource(mapping.resource_resource_name)
        \* Method 2, entered with (best, reason)
        m2 == IF /\ normalized_app_instance # <<>>
                 /\ mapping.resource_reference_path # <<>>
                 /\ _matches_component_pattern(normalized_app_instance,
                                               mapping.resource_reference_path)
                 /\ best = 0
              THEN [best |-> k, reason |-> ComponentMatch]
              ELSE [best |-> best, reason |-> reason]
        \* Method 3, entered with what Method 2 left
        m3 == IF /\ image.app_instance # <<>>
                 /\ _matches_resource_pattern(image.app_instance,
                                              mapping.resource_resource_name)
                 /\ m2.best = 0
              THEN [best |-> k, reason |-> ResourceMatch]
              ELSE m2
    IN  IF /\ deployed_chart_name # <<>> /\ resource_chart_name # <<>>
           /\ deployed_chart_name = resource_chart_name
        THEN [best |-> k, reason |-> DirectMatch, brk |-> TRUE]
        ELSE IF /\ deployed_chart_name # <<>> /\ resource_chart_name # <<>>
                /\ _are_chart_names_similar(deployed_chart_name, resource_chart_name)
        THEN [best |-> k, reason |-> SimilarMatch, brk |-> TRUE]
        ELSE [best |-> m3.best, reason |-> m3.reason, brk |-> FALSE]

\* Bounds of the correlator's inputs
MaxMappings == 2
MaxImages   == 2

\* Exchange rows the model draws from: (Resource_ResourceName, Resource_ReferencePath)
MappingUniverse == {
    \* helm-chart-collabora / collabora
    [resource_resource_name  |-> <<"h","e","l","m","-","c","h","a","r","t","-","c","o","l","l","a","b","o","r","a">>,
     resource_reference_path |-> <<"c","o","l","l","a","b","o","r","a">>],
    \* helm-chart-collabora-online / collabora
    [resource_resource_name  |-> <<"h","e","l","m","-","c","h","a","r","t","-","c","o","l","l","a","b","o","r","a","-","o","n","l","i","n","e">>,
     resource_reference_path |-> <<"c","o","l","l","a","b","o","r","a">>],
    \* helm-chart-intercom-service / opendesk-services
    [resource_resource_name  |-> <<"h","e","l","m","-","c","h","a","r","t","-","i","n","t","e","r","c","o","m","-","s","e","r","v","i","c","e">>,
     resource_reference_path |-> <<"o","p","e","n","d","e","s","k","-","s","e","r","v","i","c","e","s">>],
    \* helm-chart-intercom-service / nubus
    [resource_resource_name  |-> <<"h","e","l","m","-","c","h","a","r","t","-","i","n","t","e","r","c","o","m","-","s","e","r","v","i","c","e">>,
     resource_reference_path |-> <<"n","u","b","u","s">>],
    \* helm-chart-nubus / nubus
    [resource_resource_name  |-> <<"h","e","l","m","-","c","h","a","r","t","-","n","u","b","u","s">>,
     resource_reference_path |-> <<"n","u","b","u","s">>],
    \* a partial chain: both columns empty
    [resource_resource_name  |-> <<>>,
     resource_reference_path |-> <<>>]
}

\* Scanned images the model draws from: (helmChart, appInstance)
ImageUniverse == {
    \* collabora-online-1.1.41_6eb338d50269 / collabora-online
    [helm_chart   |-> <<"c","o","l","l","a","b","o","r","a","-","o","n","l","i","n","e","-","1",".","1",".","4","1","_","6","e","b","3","3","8","d","5","0","2","6","9">>,
     app_instance |-> <<"c","o","l","l","a","b","o","r","a","-","o","n","l","i","n","e">>],
    \* (no helmChart) / intercom-service
    [helm_chart   |-> <<>>,
     app_instance |-> <<"i","n","t","e","r","c","o","m","-","s","e","r","v","i","c","e">>],
    \* nubus-1.2.3 / opendesk-keycloak
    [helm_chart   |-> <<"n","u","b","u","s","-","1",".","2",".","3">>,
     app_instance |-> <<"o","p","e","n","d","e","s","k","-","k","e","y","c","l","o","a","k">>],
    \* postfix-1.0.0 / (no appInstance)
    [helm_chart   |-> <<"p","o","s","t","f","i","x","-","1",".","0",".","0">>,
     app_instance |-> <<>>]
}

nonCorrVars == <<kroVars, exprVars, verVars, updVars, grpVars>>

\* _load_helm_mappings: one more row of the exchange table
LoadMapping ==
    /\ cpc = "load"
    /\ Len(helm_mappings) < MaxMappings
    /\ \E m \in MappingUniverse : helm_mappings' = Append(helm_mappings, m)
    /\ UNCHANGED <<deployed_images, correlations, best_match, match_reason,
                   img_idx, map_idx, cpc>>
    /\ UNCHANGED nonCorrVars

\* _load_deployed_images: one more image of the scan
LoadImage ==
    /\ cpc = "load"
    /\ Len(deployed_images) < MaxImages
    /\ \E i \in ImageUniverse : deployed_images' = Append(deployed_images, i)
    /\ UNCHANGED <<helm_mappings, correlations, best_match, match_reason,
                   img_idx, map_idx, cpc>>
    /\ UNCHANGED nonCorrVars

\* find_correlations is entered: correlations = []
FindCorrelations ==
    /\ cpc = "load"
    /\ cpc' = "images"
    /\ correlations' = <<>>
    /\ img_idx' = 0
    /\ UNCHANGED <<helm_mappings, deployed_images, best_match, match_reason, map_idx>>
    /\ UNCHANGED nonCorrVars

\* for deployed_image in self.deployed_images: best_match = None, ...
NextImage ==
    /\ cpc = "images"
    /\ img_idx < Len(deployed_images)
    /\ img_idx' = img_idx + 1
    /\ best_match' = 0
    /\ match_reason' = NoMatchFound
    /\ map_idx' = 0
    /\ cpc' = "mappings"
    /\ UNCHANGED <<helm_mappings, deployed_images, correlations>>
    /\ UNCHANGED nonCorrVars

\* for mapping in self.helm_mappings: one pass of the body
TryMapping ==
    /\ cpc = "mappings"
    /\ map_idx < Len(helm_mappings)
    /\ LET r == ScanStep(deployed_images[img_idx], helm_mappings[map_idx + 1],
                         map_idx + 1, best_match, match_reason)
       IN  /\ best_match' = r.best
           /\ match_reason' = r.reason
           /\ map_idx' = map_idx + 1
           /\ cpc' = IF r.brk THEN "append" ELSE "mappings"
    /\ UNCHANGED <<helm_mappings, deployed_images, correlations, img_idx>>
    /\ UNCHANGED nonCorrVars

\* the inner loop ends (exhausted or left by break):
\* correlations.append((deployed_image, best_match, match_reason))
AppendCorrelation ==
    /\ \/ cpc = "append"
       \/ cpc = "mappings" /\ map_idx = Len(helm_mappings)
    /\ correlations' = Append(correlations,
                              [image   |-> img_idx,
                               mapping |-> best_match,
                               reason  |-> match_reason])
    /\ cpc' = "images"
    /\ UNCHANGED <<helm_mappings, deployed_images, best_match, match_reason,
                   img_idx, map_idx>>
    /\ UNCHANGED nonCorrVars

\* return correlations
ReturnCorrelations ==
    /\ cpc = "images"
    /\ img_idx = Len(deployed_images)
    /\ cpc' = "done"
    /\ UNCHANGED <<helm_mappings, deployed_images, correlations, best_match,
                   match_reason, img_idx, map_idx>>
    /\ UNCHANGED nonCorrVars

CorrNext ==
    \/ LoadMapping
    \/ LoadImage
    \/ FindCorrelations
    \/ NextImage
    \/ TryMapping
    \/ AppendCorrelation
    \/ ReturnCorrelations

(***************************************************************************)
(* Properties of find_correlations                                         *)
(***************************************************************************)
\* The four heuristics of the contract, as conditions on one image and one row
DirectHolds(image, mapping) ==
    LET d == _extract_chart_name_from_deployed(image.helm_chart)
        r == _extract_chart_name_from_resource(mapping.resource_resource_name)
    IN  d # <<>> /\ r # <<>> /\ d = r

SimilarHolds(image, mapping) ==
    LET d == _extract_chart_name_from_deployed(image.helm_chart)
        r == _extract_chart_name_from_resource(mapping.resource_resource_name)
    IN  d # <<>> /\ r # <<>> /\ d # r /\ _are_chart_names_similar(d, r)

ComponentHolds(image, mapping) ==
    LET a == _normalize_app_instance_name(image.app_instance)
    IN  /\ a # <<>>
        /\ mapping.resource_reference_path # <<>>
        /\ _matches_component_pattern(a, mapping.resource_reference_path)

ResourceHolds(image, mapping) ==
    /\ image.app_instance # <<>>
    /\ _matches_resource_pattern(image.app_instance, mapping.resource_resource_name)

HeuristicHolds(step, image, mapping) ==
    CASE step = 1 -> DirectHolds(image, mapping)
      [] step = 2 -> SimilarHolds(image, mapping)
      [] step = 3 -> ComponentHolds(image, mapping)
      [] step = 4 -> ResourceHolds(image, mapping)

\* HeuristicHolds over the inputs the model draws from, evaluated once
HeuristicTable ==
    [step \in 1..4, image \in ImageUniverse, mapping \in MappingUniverse |->
        HeuristicHolds(step, image, mapping)]

ReasonOfStep(step) ==
    CASE step = 1 -> DirectMatch
      [] step = 2 -> SimilarMatch
      [] step = 3 -> ComponentMatch
      [] step = 4 -> ResourceMatch

\* the rows of helm_mappings that satisfy heuristic `step` for the image
RowsFor(step, image) ==
    {k \in 1..Len(helm_mappings) : HeuristicTable[step, image, helm_mappings[k]]}

\* the heuristics some row satisfies for the image
StepsFor(image) == {step \in 1..4 : RowsFor(step, image) # {}}

ImageOf(c) == deployed_images[correlations[c].image]

\* C1: an image with a direct chart-name match on some row and an
\* app-instance/component match on some row is reported with the direct-match
\* reason, whatever the order of the rows and whatever other rows there are.
C1_DirectReasonWins ==
    \A c \in 1..Len(correlations) :
        (RowsFor(1, ImageOf(c)) # {} /\ RowsFor(3, ImageOf(c)) # {})
            => correlations[c].reason = DirectMatch

\* C2: the row and the reason reported for an image come from the
\* highest-priority heuristic that some row satisfies, and within that
\* heuristic from the first row in list order.
C2_HighestPriorityStepWins ==
    \A c \in 1..Len(correlations) :
        StepsFor(ImageOf(c)) # {} =>
            LET step == Min(StepsFor(ImageOf(c)))
            IN  /\ correlations[c].reason = ReasonOfStep(step)
                /\ correlations[c].mapping = Min(RowsFor(step, ImageOf(c)))

\* C3: one correlation per image, in input order, with at most one row; the
\* row is absent exactly when the reason is "No match found", which is the
\* case exactly when no row satisfies any of the four heuristics.
C3_OneCorrelationPerImage ==
    /\ Len(correlations) <= Len(deployed_images)
    /\ cpc = "done" => Len(correlations) = Len(deployed_images)
    /\ \A c \in 1..Len(correlations) :
        /\ correlations[c].image = c
        /\ correlations[c].mapping \in 0..Len(helm_mappings)
        /\ correlations[c].mapping = 0 <=> correlations[c].reason = NoMatchFound
        /\ correlations[c].reason = NoMatchFound <=> StepsFor(ImageOf(c)) = {}

\* find_correlations has returned a matched and an unmatched image
C3_Witness ==
    /\ cpc = "done"
    /\ Len(helm_mappings) = 2
    /\ Len(correlations) = 2
    /\ correlations[1].mapping = 0
    /\ correlations[2].mapping # 0

(***************************************************************************)
(* find_correlations on one image and one exchange row: the inputs that    *)
(* reach _are_chart_names_similar through each of its conditions           *)
(***************************************************************************)
\* 'cert-manager-cainjector-1.2.3_abcdef12'
CainjectorChart == <<"c", "e", "r", "t", "-", "m", "a", "n", "a", "g", "e", "r", "-", "c", "a", "i", "n", "j", "e", "c", "t", "o", "r", "-", "1", ".", "2", ".", "3", "_", "a", "b", "c", "d", "e", "f", "1", "2">>

\* 'helm-chart-cert-manager'
CertManagerResource == <<"h", "e", "l", "m", "-", "c", "h", "a", "r", "t", "-", "c", "e", "r", "t", "-", "m", "a", "n", "a", "g", "e", "r">>

\* Scanned images the pairs are drawn from: (helmChart, appInstance)
SimilarImageUniverse == {
    \* cert-manager-cainjector-1.2.3_abcdef12 / cert-manager
    [helm_chart   |-> <<"c", "e", "r", "t", "-", "m", "a", "n", "a", "g", "e", "r", "-", "c", "a", "i", "n", "j", "e", "c", "t", "o", "r", "-", "1", ".", "2", ".", "3", "_", "a", "b", "c", "d", "e", "f", "1", "2">>,
     app_instance |-> <<"c", "e", "r", "t", "-", "m", "a", "n", "a", "g", "e", "r">>],
    \* cert-manager-webhook-1.2.3 / (no appInstance)
    [helm_chart   |-> <<"c", "e", "r", "t", "-", "m", "a", "n", "a", "g", "e", "r", "-", "w", "e", "b", "h", "o", "o", "k", "-", "1", ".", "2", ".", "3">>,
     app_instance |-> <<>>],
    \* cert-manager-1.16.1 / (no appInstance)
    [helm_chart   |-> <<"c", "e", "r", "t", "-", "m", "a", "n", "a", "g", "e", "r", "-", "1", ".", "1", "6", ".", "1">>,
     app_instance |-> <<>>],
    \* opendesk-nextcloud-3.6.2 / (no appInstance)
    [helm_chart   |-> <<"o", "p", "e", "n", "d", "e", "s", "k", "-", "n", "e", "x", "t", "c", "l", "o", "u", "d", "-", "3", ".", "6", ".", "2">>,
     app_instance |-> <<>>],
    \* aio / (no appInstance)
    [helm_chart   |-> <<"a", "i", "o">>,
     app_instance |-> <<>>],
    \* exporter-0.7.1_0a1b2c / (no appInstance)
    [helm_chart   |-> <<"e", "x", "p", "o", "r", "t", "e", "r", "-", "0", ".", "7", ".", "1", "_", "0", "a", "1", "b", "2", "c">>,
     app_instance |-> <<>>],
    \* nginx-4.11 / (no appInstance)
    [helm_chart   |-> <<"n", "g", "i", "n", "x", "-", "4", ".", "1", "1">>,
     app_instance |-> <<>>],
    \* abc-1.0 / (no appInstance)
    [helm_chart   |-> <<"a", "b", "c", "-", "1", ".", "0">>,
     app_instance |-> <<>>],
    \* abcd / (no appInstance)
    [helm_chart   |-> <<"a", "b", "c", "d">>,
     app_instance |-> <<>>],
    \* (no helmChart) / cert-manager
    [helm_chart   |-> <<>>,
     app_instance |-> <<"c", "e", "r", "t", "-", "m", "a", "n", "a", "g", "e", "r">>]
}

\* Exchange rows the pairs are drawn from: (Resource_ResourceName, Resource_ReferencePath)
SimilarMappingUniverse == {
    \* helm-chart-cert-manager / (no path)
    [resource_resource_name  |-> <<"h", "e", "l", "m", "-", "c", "h", "a", "r", "t", "-", "c", "e", "r", "t", "-", "m", "a", "n", "a", "g", "e", "r">>,
     resource_reference_path |-> <<>>],
    \* helm-chart-cert-manager-cainjector / (no path)
    [resource_resource_name  |-> <<"h", "e", "l", "m", "-", "c", "h", "a", "r", "t", "-", "c", "e", "r", "t", "-", "m", "a", "n", "a", "g", "e", "r", "-", "c", "a", "i", "n", "j", "e", "c", "t", "o", "r">>,
     resource_reference_path |-> <<>>],
    \* helm-chart-opendesk-nextcloud / (no path)
    [resource_resource_name  |-> <<"h", "e", "l", "m", "-", "c", "h", "a", "r", "t", "-", "o", "p", "e", "n", "d", "e", "s", "k", "-", "n", "e", "x", "t", "c", "l", "o", "u", "d">>,
     resource_reference_path |-> <<>>],
    \* helm-chart-aio / (no path)
    [resource_resource_name  |-> <<"h", "e", "l", "m", "-", "c", "h", "a", "r", "t", "-", "a", "i", "o">>,
     resource_reference_path |-> <<>>],
    \* exporter / (no path)
    [resource_resource_name  |-> <<"e", "x", "p", "o", "r", "t", "e", "r">>,
     resource_reference_path |-> <<>>],
    \* helm-chart-ingress-nginx / (no path)
    [resource_resource_name  |-> <<"h", "e", "l", "m", "-", "c", "h", "a", "r", "t", "-", "i", "n", "g", "r", "e", "s", "s", "-", "n", "g", "i", "n", "x">>,
     resource_reference_path |-> <<>>],
    \* helm-chart-abc / (no path)
    [resource_resource_name  |-> <<"h", "e", "l", "m", "-", "c", "h", "a", "r", "t", "-", "a", "b", "c">>,
     resource_reference_path |-> <<>>],
    \* helm-chart-abcde / (no path)
    [resource_resource_name  |-> <<"h", "e", "l", "m", "-", "c", "h", "a", "r", "t", "-", "a", "b", "c", "d", "e">>,
     resource_reference_path |-> <<>>],
    \* helm-chart-cde / (no path)
    [resource_resource_name  |-> <<"h", "e", "l", "m", "-", "c", "h", "a", "r", "t", "-", "c", "d", "e">>,
     resource_reference_path |-> <<>>],
    \* (no name) / (no path)
    [resource_resource_name  |-> <<>>,
     resource_reference_path |-> <<>>]
}

\* _load_deployed_images and _load_helm_mappings: a scan of one image and
\* an exchange table of one row
LoadPair ==
    /\ cpc = "load"
    /\ deployed_images = <<>>
    /\ helm_mappings = <<>>
    /\ \E i \in SimilarImageUniverse : deployed_images' = <<i>>
    /\ \E m \in SimilarMappingUniverse : helm_mappings' = <<m>>
    /\ UNCHANGED <<correlations, best_match, match_reason, img_idx, map_idx, cpc>>
    /\ UNCHANGED nonCorrVars

\* find_correlations, once the pair is loaded
FindCorrelationsOfPair ==
    /\ deployed_images # <<>>
    /\ FindCorrelations

SimNext ==
    \/ LoadPair
    \/ FindCorrelationsOfPair
    \/ NextImage
    \/ TryMapping
    \/ AppendCorrelation
    \/ ReturnCorrelations

\* name is in the alias list of key in the alias table
IsAliasOf(name, key) == \E v \in variations : v[1] = key /\ name \in v[2]

\* both names are in one alias list
ShareAliasList(name1, name2) == \E v \in variations : name1 \in v[2] /\ name2 \in v[2]

\* the condition of step 2 as the contract words it
AliasOrSubstring(name1, name2) ==
    \/ IsAliasOf(name2, name1)
    \/ IsAliasOf(name1, name2)
    \/ ShareAliasList(name1, name2)
    \/ /\ Len(name1) > 3
       /\ Len(name2) > 3
       /\ \/ \E k \in 1..Len(name2) : OccursAt(name2, name1, k)
          \/ \E k \in 1..Len(name1) : OccursAt(name1, name2, k)

\* find_correlations has returned for a scan of one image and a table of
\* one row
PairCorrelated ==
    cpc = "done" /\ Len(deployed_images) = 1 /\ Len(helm_mappings) = 1 /\ Len(correlations) = 1

MaxRows == 2

\* Scanned images: (helmChart, appInstance)
PatternImageUniverse == {
    \* nubus-1.2.3 / opendesk-keycloak
    [helm_chart   |-> <<"n", "u", "b", "u", "s", "-", "1", ".", "2", ".", "3">>,
     app_instance |-> <<"o", "p", "e", "n", "d", "e", "s", "k", "-", "k", "e", "y", "c", "l", "o", "a", "k">>],
    \* (no helmChart) / Keycloak
    [helm_chart   |-> <<>>,
     app_instance |-> <<"K", "e", "y", "c", "l", "o", "a", "k">>],
    \* (no helmChart) / collabora-online
    [helm_chart   |-> <<>>,
     app_instance |-> <<"c", "o", "l", "l", "a", "b", "o", "r", "a", "-", "o", "n", "l", "i", "n", "e">>],
    \* (no helmChart) / intercom-service
    [helm_chart   |-> <<>>,
     app_instance |-> <<"i", "n", "t", "e", "r", "c", "o", "m", "-", "s", "e", "r", "v", "i", "c", "e">>],
    \* (no helmChart) / Nextcloud
    [helm_chart   |-> <<>>,
     app_instance |-> <<"N", "e", "x", "t", "c", "l", "o", "u", "d">>],
    \* (no helmChart) / opendesk-
    [helm_chart   |-> <<>>,
     app_instance |-> <<"o", "p", "e", "n", "d", "e", "s", "k", "-">>],
    \* (no helmChart) / matrix-user-verification-service
    [helm_chart   |-> <<>>,
     app_instance |-> <<"m", "a", "t", "r", "i", "x", "-", "u", "s", "e", "r", "-", "v", "e", "r", "i", "f", "i", "c", "a", "t", "i", "o", "n", "-", "s", "e", "r", "v", "i", "c", "e">>],
    \* postfix-1.0.0 / (no appInstance)
    [helm_chart   |-> <<"p", "o", "s", "t", "f", "i", "x", "-", "1", ".", "0", ".", "0">>,
     app_instance |-> <<>>],
    \* (no helmChart) / opendesk-nextcloud-aio-x
    [helm_chart   |-> <<>>,
     app_instance |-> <<"o", "p", "e", "n", "d", "e", "s", "k", "-", "n", "e", "x", "t", "c", "l", "o", "u", "d", "-", "a", "i", "o", "-", "x">>],
    \* (no helmChart) / chart-sync
    [helm_chart   |-> <<>>,
     app_instance |-> <<"c", "h", "a", "r", "t", "-", "s", "y", "n", "c">>]
}

\* Exchange rows: (Resource_ResourceName, Resource_ReferencePath)
PatternMappingUniverse == {
    \* helm-chart-nubus / nubus
    [resource_resource_name  |-> <<"h", "e", "l", "m", "-", "c", "h", "a", "r", "t", "-", "n", "u", "b", "u", "s">>,
     resource_reference_path |-> <<"n", "u", "b", "u", "s">>],
    \* helm-chart-intercom-service / nubus
    [resource_resource_name  |-> <<"h", "e", "l", "m", "-", "c", "h", "a", "r", "t", "-", "i", "n", "t", "e", "r", "c", "o", "m", "-", "s", "e", "r", "v", "i", "c", "e">>,
     resource_reference_path |-> <<"n", "u", "b", "u", "s">>],
    \* helm-chart-collabora-online / collabora
    [resource_resource_name  |-> <<"h", "e", "l", "m", "-", "c", "h", "a", "r", "t", "-", "c", "o", "l", "l", "a", "b", "o", "r", "a", "-", "o", "n", "l", "i", "n", "e">>,
     resource_reference_path |-> <<"c", "o", "l", "l", "a", "b", "o", "r", "a">>],
    \* helm-chart-nextcloud / nextcloud
    [resource_resource_name  |-> <<"h", "e", "l", "m", "-", "c", "h", "a", "r", "t", "-", "n", "e", "x", "t", "c", "l", "o", "u", "d">>,
     resource_reference_path |-> <<"n", "e", "x", "t", "c", "l", "o", "u", "d">>],
    \* helm-chart-opendesk-nextcloud / files
    [resource_resource_name  |-> <<"h", "e", "l", "m", "-", "c", "h", "a", "r", "t", "-", "o", "p", "e", "n", "d", "e", "s", "k", "-", "n", "e", "x", "t", "c", "l", "o", "u", "d">>,
     resource_reference_path |-> <<"f", "i", "l", "e", "s">>],
    \* helm-chart-aio / files
    [resource_resource_name  |-> <<"h", "e", "l", "m", "-", "c", "h", "a", "r", "t", "-", "a", "i", "o">>,
     resource_reference_path |-> <<"f", "i", "l", "e", "s">>],
    \* aio-helm-chart-nextcloud / (no path)
    [resource_resource_name  |-> <<"a", "i", "o", "-", "h", "e", "l", "m", "-", "c", "h", "a", "r", "t", "-", "n", "e", "x", "t", "c", "l", "o", "u", "d">>,
     resource_reference_path |-> <<>>],
    \* (no name) / element
    [resource_resource_name  |-> <<>>,
     resource_reference_path |-> <<"e", "l", "e", "m", "e", "n", "t">>],
    \* (no name) / (no path)
    [resource_resource_name  |-> <<>>,
     resource_reference_path |-> <<>>]
}

\* _load_deployed_images: a scan of one image
LoadScannedImage ==
    /\ cpc = "load"
    /\ deployed_images = <<>>
    /\ \E i \in PatternImageUniverse : deployed_images' = <<i>>
    /\ UNCHANGED <<helm_mappings, correlations, best_match, match_reason,
                   img_idx, map_idx, cpc>>
    /\ UNCHANGED nonCorrVars

\* _load_helm_mappings: one more row of the exchange table
LoadRow ==
    /\ cpc = "load"
    /\ Len(helm_mappings) < MaxRows
    /\ \E m \in PatternMappingUniverse : helm_mappings' = Append(helm_mappings, m)
    /\ UNCHANGED <<deployed_images, correlations, best_match, match_reason,
                   img_idx, map_idx, cpc>>
    /\ UNCHANGED nonCorrVars

PatNext ==
    \/ LoadScannedImage
    \/ LoadRow
    \/ FindCorrelationsOfPair
    \/ NextImage
    \/ TryMapping
    \/ AppendCorrelation
    \/ ReturnCorrelations

(***************************************************************************)
(* Properties of steps 3 and 4 of the scan                                 *)
(***************************************************************************)
\* one pass of the loop over the rows: row map_idx + 1 is tried
ScanPass == cpc = "mappings" /\ map_idx' = map_idx + 1

\* step 1 or step 2 holds for the pair: the scan ends on this row
EarlierStepHolds(image, row) ==
    DirectHolds(image, row) \/ SimilarHolds(image, row)

\* name holds a key of the component table whose component is path
HoldsKeyOf(name, path) ==
    \E cm \in component_mappings :
        (\E i \in 1..Len(name) : OccursAt(name, cm[1], i)) /\ cm[2] = path

\* the pass selected its row, with the reason of step 3
Step3Selects == best_match' = map_idx' /\ match_reason' = ComponentMatch

\* the statement of step 3 with the app instance compared as it is written
C23_Step3MatchesOnTheNameAsWritten ==
    [][ScanPass =>
          LET image == deployed_images[img_idx]
              row == helm_mappings[map_idx + 1]
              a == _normalize_app_instance_name(image.app_instance)
          IN  Step3Selects <=>
                  /\ best_match = 0
                  /\ ~EarlierStepHolds(image, row)
                  /\ a # <<>>
                  /\ HoldsKeyOf(a, row.resource_reference_path)]_vars

\* C23: step 3 selects the row of a pass exactly when no row has been
\* selected for the image so far, steps 1 and 2 do not end the scan on the
\* row, and the app instance without 'opendesk-' and '-opendesk', after
\* the exact-name remaps, is not empty and holds, compared in lower case, a
\* key of the component table whose component is the reference path of the
\* row.
C23_Step3MatchesOnComponentTable ==
    [][ScanPass =>
          LET image == deployed_images[img_idx]
              row == helm_mappings[map_idx + 1]
              a == _normalize_app_instance_name(image.app_instance)
          IN  Step3Selects <=>
                  /\ best_match = 0
                  /\ ~EarlierStepHolds(image, row)
                  /\ a # <<>>
                  /\ HoldsKeyOf(Lower(a), row.resource_reference_path)]_vars

\* step 3 selected the first of two rows that both hold for the image
C23_Witness ==
    /\ cpc = "done"
    /\ Len(helm_mappings) = 2
    /\ correlations[1].mapping = 1
    /\ correlations[1].reason = ComponentMatch
    /\ ComponentHolds(deployed_images[1], helm_mappings[2])
    /\ ~EarlierStepHolds(deployed_images[1], helm_mappings[2])

\* the hyphen-delimited keywords of a name
Keywords(name) == SplitSet(name, "-")

\* the name without its leading 'helm-chart-'
WithoutLeadingPrefix(name) ==
    IF StartsWith(name, HelmChartPrefix)
    THEN SubSeq(name, Len(HelmChartPrefix) + 1, Len(name)) ELSE name

\* the two sets share at least min(2, 0.5 x |app_keywords|) elements
EnoughShared(app_keywords, resource_keywords) ==
    2 * Cardinality(app_keywords \cap resource_keywords)
        >= (IF Cardinality(app_keywords) < 4 THEN Cardinality(app_keywords) ELSE 4)

\* the pass selected its row, with the reason of step 4
Step4Selects == best_match' = map_idx' /\ match_reason' = ResourceMatch

IsPartialRow(row) ==
    row.resource_resource_name = <<>> /\ row.resource_reference_path = <<>>

\* C29: a partial chain is never selected as the match of a deployed image,
\* whatever the image's helmChart and appInstance and wherever the row
\* stands in the list: neither during the scan nor in the result.
C29_PartialChainNeverSelected ==
    /\ best_match # 0 => ~IsPartialRow(helm_mappings[best_match])
    /\ \A c \in 1..Len(correlations) :
           correlations[c].mapping # 0 =>
               ~IsPartialRow(helm_mappings[correlations[c].mapping])

\* the scan passed over a partial chain in first place and selected the
\* row after it
C29_Witness ==
    /\ cpc = "done"
    /\ Len(helm_mappings) = 2
    /\ IsPartialRow(helm_mappings[1])
    /\ correlations[1].mapping = 2
(***************************************************************************)
(* Expression extractors                                                   *)
(*   KROAnalyzer.parse_template_expression / parse_oci_url_template        *)
(*   analyze_kro_mappings.parse_helm_to_oci / parse_oci_to_resource        *)
(***************************************************************************)
DollarBrace     == <<"$","{">>
MetadataName    == <<".","m","e","t","a","d","a","t","a",".","n","a","m","e">>
StatusRegistry  == <<".","s","t","a","t","u","s",".","a","d","d","i","t","i","o","n","a","l",".","?","r","e","g","i","s","t","r","y">>

\* \s*: the first position from i on that holds no whitespace
SkipWhiteSpace(s, i) ==
    Min({j \in i..(Len(s) + 1) : j = Len(s) + 1 \/ s[j] \notin WhiteSpace})

\* [a-zA-Z][a-zA-Z0-9]*: the position after the identifier that starts at i
\* (i itself when no identifier starts there)
IdentifierEnd(s, i) ==
    IF i > Len(s) \/ s[i] \notin Letters THEN i
    ELSE Min({j \in (i + 1)..(Len(s) + 1) :
                j = Len(s) + 1 \/ s[j] \notin Letters \cup Digits})

\* MatchAt as it would be with the \s* before the closing brace left out
MatchAtNoSpaceBeforeBrace(s, i, attribute) ==
    LET b == SkipWhiteSpace(s, i + 2)
        c == IdentifierEnd(s, b)
        d == SkipWhiteSpace(s, c)
        f == d + Len(attribute)
    IN  IF /\ OccursAt(s, DollarBrace, i)
           /\ c > b
           /\ OccursAt(s, attribute, d)
           /\ f <= Len(s)
           /\ s[f] = "}"
        THEN SubSeq(s, b, c - 1)
        ELSE None

\* r'\$\{\s*([a-zA-Z][a-zA-Z0-9]*)\s*<attribute>\s*\}' matched at position i:
\* group(1), or None when the pattern does not match there
MatchAt(s, i, attribute) ==
    LET b == SkipWhiteSpace(s, i + 2)
        c == IdentifierEnd(s, b)
        d == SkipWhiteSpace(s, c)
        f == SkipWhiteSpace(s, d + Len(attribute))
    IN  IF /\ OccursAt(s, DollarBrace, i)
           /\ c > b
           /\ OccursAt(s, attribute, d)
           /\ f <= Len(s)
           /\ s[f] = "}"
        THEN SubSeq(s, b, c - 1)
        ELSE None

\* re.search(pattern, s): the leftmost match; group(1) if match else None
Search(s, attribute) ==
    LET hits == {i \in 1..Len(s) : MatchAt(s, i, attribute) # None}
    IN  IF hits = {} THEN None ELSE MatchAt(s, Min(hits), attribute)

\* KROAnalyzer.parse_template_expression
parse_template_expression(expr) ==
    IF ~IsString(expr) THEN None ELSE Search(expr, MetadataName)

\* KROAnalyzer.parse_oci_url_template
parse_oci_url_template(url) ==
    IF ~IsString(url) THEN None ELSE Search(url, StatusRegistry)

\* re.search raises TypeError when handed a value that is no string
TypeError == <<"TypeError">>

\* analyze_kro_mappings.parse_helm_to_oci
parse_helm_to_oci(chart_ref) ==
    IF ~IsString(chart_ref) THEN TypeError ELSE Search(chart_ref, MetadataName)

\* analyze_kro_mappings.parse_oci_to_resource
parse_oci_to_resource(url) ==
    IF ~IsString(url) THEN TypeError ELSE Search(url, StatusRegistry)

\* Bound of the expression strings: the number of pieces put together
MaxPieces == 5

\* The pieces the model puts expression strings together from
Pieces == {
    <<"$","{">>,
    <<" ">>,
    <<"a">>,
    <<"1">>,
    <<".","m","e","t","a","d","a","t","a",".","n","a","m","e">>,
    <<"}">>,
    \* ${b.metadata.name}/${ c.status.additional.?registry }
    <<"$","{","b",".","m","e","t","a","d","a","t","a",".","n","a","m","e","}","/",
      "$","{"," ","c",".","s","t","a","t","u","s",".","a","d","d","i","t","i","o","n","a","l",".","?","r","e","g","i","s","t","r","y"," ","}">>
}

nonExprVars == <<corrVars, kroVars, verVars, updVars, grpVars>>

\* nothing extracted yet
NotExtracted == [by |-> "nobody", chart |-> None, registry |-> None]

\* the caller's string grows by one piece
AppendPiece ==
    /\ extracted = NotExtracted
    /\ IsString(expression)
    /\ pieces < MaxPieces
    /\ \E p \in Pieces : expression' = expression \o p
    /\ pieces' = pieces + 1
    /\ UNCHANGED extracted
    /\ UNCHANGED nonExprVars

\* the caller holds a value that is no string: None (`name:` with no value)
\* or a number (`name: 123`)
GiveNonString ==
    /\ extracted = NotExtracted
    /\ pieces = 0
    /\ expression = <<>>
    /\ \E v \in {None, NonString} : expression' = v
    /\ UNCHANGED <<pieces, extracted>>
    /\ UNCHANGED nonExprVars

\* KROAnalyzer's two extractors applied to the value
ParseWithAnalyzer ==
    /\ extracted = NotExtracted
    /\ extracted' = [by       |-> "KROAnalyzer",
                     chart    |-> parse_template_expression(expression),
                     registry |-> parse_oci_url_template(expression)]
    /\ UNCHANGED <<expression, pieces>>
    /\ UNCHANGED nonExprVars

\* analyze_kro_mappings' two extractors applied to the value
ParseWithSummary ==
    /\ extracted = NotExtracted
    /\ extracted' = [by       |-> "analyze_kro_mappings",
                     chart    |-> parse_helm_to_oci(expression),
                     registry |-> parse_oci_to_resource(expression)]
    /\ UNCHANGED <<expression, pieces>>
    /\ UNCHANGED nonExprVars

ExprNext ==
    \/ AppendPiece
    \/ GiveNonString
    \/ ParseWithAnalyzer
    \/ ParseWithSummary

(***************************************************************************)
(* Properties of the expression extractors                                 *)
(***************************************************************************)
\* The shape '${ X<attribute> }' read off the string at place i: "${",
\* whitespace, an identifier X, whitespace, the attribute, whitespace, "}".
\* IdentifierStarts: where X may start; IdentifierStops: where it may stop.
IdentifierStarts(s, i) ==
    {b \in (i + 2)..Len(s) :
        /\ s[b] \in Letters
        /\ \A k \in (i + 2)..(b - 1) : s[k] \in WhiteSpace}

ClosesAfter(s, c, attribute) ==
    \E d \in c..Len(s) :
        /\ \A k \in c..(d - 1) : s[k] \in WhiteSpace
        /\ OccursAt(s, attribute, d)
        /\ \E f \in (d + Len(attribute))..Len(s) :
              /\ \A k \in (d + Len(attribute))..(f - 1) : s[k] \in WhiteSpace
              /\ s[f] = "}"

IdentifierStops(s, b, attribute) ==
    {c \in (b + 1)..(Len(s) + 1) :
        /\ \A k \in b..(c - 1) : s[k] \in Letters \cup Digits
        /\ ClosesAfter(s, c, attribute)}

\* <<i, X>> for every place i of s where the shape stands with identifier X
Shapes(s, attribute) ==
    UNION {UNION {{<<i, SubSeq(s, b, c - 1)>> : c \in IdentifierStops(s, b, attribute)} :
                    b \in IdentifierStarts(s, i)} :
             i \in {j \in 1..Len(s) : OccursAt(s, DollarBrace, j)}}

\* the identifier of the first shape of s, None when s holds no shape
FirstShape(s, attribute) ==
    LET found == Shapes(s, attribute)
    IN  IF found = {} THEN None
        ELSE (CHOOSE t \in found : \A u \in found : t[1] <= u[1])[2]

\* C7: for a string that contains the shape '${ X.metadata.name }', with any
\* whitespace around X, the chart-reference extractor returns X (the X of the
\* first such shape); for a string without that shape it returns none.
C7_ChartExtractorReturnsIdentifier ==
    (extracted # NotExtracted /\ IsString(expression))
        => extracted.chart = FirstShape(expression, MetadataName)

\* an extractor has returned the identifier of '${ a.metadata.name}'
C7_Witness ==
    /\ extracted # NotExtracted
    /\ expression = <<"$","{"," ","a",".","m","e","t","a","d","a","t","a",".","n","a","m","e","}">>
    /\ extracted.chart = <<"a">>

\* C8: both extractors return "no match" instead of failing for a value that
\* is no string, and for a string with several expressions of the recognised
\* shape they return the identifier of the first one only.
C8_ExtractorsRejectNonStrings ==
    extracted # NotExtracted =>
        IF IsString(expression)
        THEN /\ extracted.chart = FirstShape(expression, MetadataName)
             /\ extracted.registry = FirstShape(expression, StatusRegistry)
        ELSE /\ extracted.chart = None
             /\ extracted.registry = None

(***************************************************************************)
(* RGD analysis: the classifier and the chain resolvers                    *)
(*   analyze_kro_mappings (kro_helm_oci_summary.py)                        *)
(*   KROAnalyzer (analyze_kro_helm_oci_mapping.py)                         *)
(*                                                                         *)
(* A resource entry is a mapping.  `template` tells whether the key is     *)
(* absent, holds a scalar, or holds a mapping; kind, apiVersion, chartRef  *)
(* (template.spec.chartRef.name), url (template.spec.url) and byReference  *)
(* (template.spec.resource.byReference) are read under a mapping only,     *)
(* with None for an absent key.  Resources are referred to by their        *)
(* position in spec.resources: the Python objects are compared by          *)
(* identity, never copied.                                                 *)
(***************************************************************************)
OcmApiVersion == "delivery.ocm.software/v1alpha1"

\* byReference.resource is "absent" (no such key), "mapping" (resource_name
\* is its name, None without that key) or "null" (the key without a value)
NoByReference ==
    [present |-> FALSE, referencePath |-> <<>>, resource |-> "absent", resource_name |-> None]

Entry(id, template, kind, apiVersion, chartRef, url, byReference) ==
    [id |-> id, template |-> template, kind |-> kind, apiVersion |-> apiVersion,
     chartRef |-> chartRef, url |-> url, byReference |-> byReference]

fooHR  == <<"f","o","o","H","R">>
bazHR  == <<"b","a","z","H","R">>
fooOCI == <<"f","o","o","O","C","I">>
bazOCI == <<"b","a","z","O","C","I">>
barRes == <<"b","a","r","R","e","s">>

\* Bound of the document: the number of entries of spec.resources
MaxResources == 3

\* The entries the model draws spec.resources from
ResourceUniverse == {
    \* HelmRelease fooHR, chartRef.name: "${ fooOCI.metadata.name }"
    Entry(fooHR, "mapping", "HelmRelease", "helm.toolkit.fluxcd.io/v2",
          <<"$","{"," ","f","o","o","O","C","I",".","m","e","t","a","d","a","t","a",".","n","a","m","e"," ","}">>,
          None, NoByReference),
    \* HelmRelease bazHR, chartRef.name: "${bazOCI.metadata.name}"
    Entry(bazHR, "mapping", "HelmRelease", "helm.toolkit.fluxcd.io/v2",
          <<"$","{","b","a","z","O","C","I",".","m","e","t","a","d","a","t","a",".","n","a","m","e","}">>,
          None, NoByReference),
    \* HelmRelease fooHR (the id a second time), no chartRef
    Entry(fooHR, "mapping", "HelmRelease", "helm.toolkit.fluxcd.io/v2",
          None, None, NoByReference),
    \* HelmRelease bazHR, chartRef.name: "foo-chart" (no expression)
    Entry(bazHR, "mapping", "HelmRelease", "helm.toolkit.fluxcd.io/v2",
          <<"f","o","o","-","c","h","a","r","t">>,
          None, NoByReference),
    \* HelmRelease without id, chartRef.name: "${ fooOCI.metadata.name }"
    Entry(None, "mapping", "HelmRelease", "helm.toolkit.fluxcd.io/v2",
          <<"$","{"," ","f","o","o","O","C","I",".","m","e","t","a","d","a","t","a",".","n","a","m","e"," ","}">>,
          None, NoByReference),
    \* OCIRepository fooOCI,
    \* url: "oci://${ barRes.status.additional.?registry }/${ barRes.status.additional.?repository }"
    Entry(fooOCI, "mapping", "OCIRepository", "source.toolkit.fluxcd.io/v1", None,
          <<"o","c","i",":","/","/","$","{"," ","b","a","r","R","e","s",".","s","t","a","t","u","s",".","a","d","d","i","t","i","o","n","a","l",".","?","r","e","g","i","s","t","r","y"," ","}","/","$","{"," ","b","a","r","R","e","s",".","s","t","a","t","u","s",".","a","d","d","i","t","i","o","n","a","l",".","?","r","e","p","o","s","i","t","o","r","y"," ","}">>,
          NoByReference),
    \* OCIRepository fooOCI (the id a second time), url: "oci://registry/foo"
    Entry(fooOCI, "mapping", "OCIRepository", "source.toolkit.fluxcd.io/v1", None,
          <<"o","c","i",":","/","/","r","e","g","i","s","t","r","y","/","f","o","o">>,
          NoByReference),
    \* OCIRepository bazOCI, no url
    Entry(bazOCI, "mapping", "OCIRepository", "source.toolkit.fluxcd.io/v1", None,
          None, NoByReference),
    \* OCIRepository without id, url: "oci://${barRes.status.additional.?registry}"
    Entry(None, "mapping", "OCIRepository", "source.toolkit.fluxcd.io/v1", None,
          <<"o","c","i",":","/","/","$","{","b","a","r","R","e","s",".","s","t","a","t","u","s",".","a","d","d","i","t","i","o","n","a","l",".","?","r","e","g","i","s","t","r","y","}">>,
          NoByReference),
    \* Resource barRes, byReference: referencePath [{name: nubus}], resource {name: helm-chart-foo}
    Entry(barRes, "mapping", "Resource", OcmApiVersion, None, None,
          [present |-> TRUE,
           referencePath |-> << <<"n","u","b","u","s">> >>,
           resource |-> "mapping",
           resource_name |-> <<"h","e","l","m","-","c","h","a","r","t","-","f","o","o">>]),
    \* Resource barRes, byReference: resource {name: helm-chart-foo}, no referencePath
    Entry(barRes, "mapping", "Resource", OcmApiVersion, None, None,
          [present |-> TRUE,
           referencePath |-> <<>>,
           resource |-> "mapping",
           resource_name |-> <<"h","e","l","m","-","c","h","a","r","t","-","f","o","o">>]),
    \* Resource barRes, byReference: referencePath [{name: nubus}], resource: (no value)
    Entry(barRes, "mapping", "Resource", OcmApiVersion, None, None,
          [present |-> TRUE,
           referencePath |-> << <<"n","u","b","u","s">> >>,
           resource |-> "null",
           resource_name |-> None]),
    \* Resource barRes (the id a second time), no byReference
    Entry(barRes, "mapping", "Resource", OcmApiVersion, None, None, NoByReference),
    \* kind Resource of another API group, id barRes
    Entry(barRes, "mapping", "Resource", "v1", None, None, NoByReference),
    \* a ConfigMap
    Entry(<<"c","m">>, "mapping", "ConfigMap", "v1", None, None, NoByReference),
    \* HelmRelease, chartRef.name: 123 (not a string)
    Entry(<<"n","u","m","H","R">>, "mapping", "HelmRelease", "helm.toolkit.fluxcd.io/v2",
          NonString, None, NoByReference),
    \* HelmRelease numHR, chartRef.name: 123 (not a string)
    Entry(<<"n","u","m","H","R">>, "mapping", "HelmRelease", "helm.toolkit.fluxcd.io/v2",
          NonString, None, NoByReference),
    \* an entry without template
    Entry(<<"c","m">>, "absent", "", "", None, None, NoByReference),
    \* an entry whose template is a scalar
    Entry(<<"c","m">>, "scalar", "", "", None, None, NoByReference)
}

(***************************************************************************)
(* The classifier                                                          *)
(***************************************************************************)
\* the positions 1..n of spec.resources, in document order
Positions(n) == [k \in 1..n |-> k]

\* 'template' in resource and isinstance(resource['template'], dict)
HasTemplateMapping(res, k) == res[k].template = "mapping"

\* Resource with every apiVersion accepted
IsResourceAnyApi(res, k) ==
    HasTemplateMapping(res, k) /\ res[k].kind = "Resource"

IsHelmRelease(res, k) ==
    HasTemplateMapping(res, k) /\ res[k].kind = "HelmRelease"

IsOCIRepository(res, k) ==
    HasTemplateMapping(res, k) /\ res[k].kind = "OCIRepository"

IsResource(res, k) ==
    /\ HasTemplateMapping(res, k)
    /\ res[k].kind = "Resource"
    /\ res[k].apiVersion = OcmApiVersion

find_helm_releases(res) ==
    SelectSeq(Positions(Len(res)), LAMBDA k : IsHelmRelease(res, k))

find_oci_repositories(res) ==
    SelectSeq(Positions(Len(res)), LAMBDA k : IsOCIRepository(res, k))

find_resources(res) ==
    SelectSeq(Positions(Len(res)), LAMBDA k : IsResource(res, k))

\* the loop of analyze_kro_mappings: one pass, if / elif / elif
RECURSIVE Classify(_, _, _)
Classify(res, k, lists) ==
    IF k > Len(res) THEN lists
    ELSE IF res[k].template = "mapping"
         THEN IF res[k].kind = "HelmRelease"
              THEN Classify(res, k + 1,
                       [lists EXCEPT !.helm_releases = Append(@, k)])
              ELSE IF res[k].kind = "OCIRepository"
              THEN Classify(res, k + 1,
                       [lists EXCEPT !.oci_repositories = Append(@, k)])
              ELSE IF res[k].kind = "Resource" /\ res[k].apiVersion = OcmApiVersion
              THEN Classify(res, k + 1,
                       [lists EXCEPT !.resource_definitions = Append(@, k)])
              ELSE Classify(res, k + 1, lists)
         ELSE Classify(res, k + 1, lists)

NoLists == [helm_releases |-> <<>>, oci_repositories |-> <<>>, resource_definitions |-> <<>>]

(***************************************************************************)
(* The chain resolvers                                                     *)
(***************************************************************************)
\* Python truth of a value that is None, a string or another scalar
Truthy(v) == v # None /\ v # <<>>

\* a table in which the first entry of an id stays
RECURSIVE ByIdFirst(_, _, _, _)
ByIdFirst(res, group, j, table) ==
    IF j > Len(group) THEN table
    ELSE IF res[group[j]].id = None \/ res[group[j]].id \in DOMAIN table
    THEN ByIdFirst(res, group, j + 1, table)
    ELSE ByIdFirst(res, group, j + 1,
              [name \in DOMAIN table \cup {res[group[j]].id} |->
                  IF name = res[group[j]].id THEN group[j] ELSE table[name]])

\* {r['id']: r for r in group if 'id' in r}: a later entry replaces an
\* earlier one under the same id
RECURSIVE ById(_, _, _, _)
ById(res, group, j, table) ==
    IF j > Len(group) THEN table
    ELSE IF res[group[j]].id = None THEN ById(res, group, j + 1, table)
    ELSE ById(res, group, j + 1,
              [name \in DOMAIN table \cup {res[group[j]].id} |->
                  IF name = res[group[j]].id THEN group[j] ELSE table[name]])

EmptyTable == [name \in {} |-> 0]

extract_chart_ref_name(entry) == entry.chartRef

extract_oci_url(entry) == entry.url

NoRefInfo == [referencePath |-> None, resourceName |-> None]

\* resource_spec['resource'].get('name') on a resource key without a value:
\* AttributeError, which the except clause (KeyError, TypeError, IndexError)
\* lets through
RaisesAttributeError(entry) ==
    entry.byReference.present /\ entry.byReference.resource = "null"

\* the value returned when no AttributeError is raised
extract_resource_reference_info(entry) ==
    IF ~entry.byReference.present THEN NoRefInfo
    ELSE [referencePath |->
              IF Len(entry.byReference.referencePath) > 0
              THEN entry.byReference.referencePath[1] ELSE None,
          resourceName |->
              IF entry.byReference.resource = "mapping"
              THEN entry.byReference.resource_name ELSE None]

\* dict.get(key) without the default
GetNoDefault(v) == v

\* dict.get(key, "") of the summary
GetOrEmpty(v) == IF v = None THEN <<>> ELSE v

\* a chain of the summary: (hr, oci_repo, resource_def, resource_ref_info);
\* resource = 0 stands for the tuple (hr, oci_repo, None, None)
Chain(hr, oci, resource, ref_info) ==
    [hr |-> hr, oci |-> oci, resource |-> resource, ref_info |-> ref_info]

\* the loop "for hr in helm_releases" of analyze_kro_mappings
RECURSIVE ResolveLoop(_, _, _, _, _, _)
ResolveLoop(res, hrs, j, oci_by_id, resource_by_id, out) ==
    IF j > Len(hrs) THEN out
    ELSE
    LET hr == hrs[j]
        oci_var_name == parse_helm_to_oci(GetOrEmpty(res[hr].chartRef))
    IN  IF oci_var_name = TypeError THEN [out EXCEPT !.error = TRUE]
        ELSE IF Truthy(oci_var_name) /\ oci_var_name \in DOMAIN oci_by_id
        THEN LET oci_repo == oci_by_id[oci_var_name]
                 resource_var_name == parse_oci_to_resource(GetOrEmpty(res[oci_repo].url))
             IN  IF resource_var_name = TypeError THEN [out EXCEPT !.error = TRUE]
                 ELSE IF Truthy(resource_var_name) /\ resource_var_name \in DOMAIN resource_by_id
                 THEN LET resource_def == resource_by_id[resource_var_name]
                      IN  IF RaisesAttributeError(res[resource_def])
                          THEN [out EXCEPT !.error = TRUE]
                          ELSE
                          ResolveLoop(res, hrs, j + 1, oci_by_id, resource_by_id,
                              [out EXCEPT !.complete_mappings =
                                  Append(@, Chain(hr, oci_repo, resource_def,
                                         extract_resource_reference_info(res[resource_def])))])
                 ELSE ResolveLoop(res, hrs, j + 1, oci_by_id, resource_by_id,
                          [out EXCEPT !.complete_mappings =
                              Append(@, Chain(hr, oci_repo, 0, NoRefInfo))])
        ELSE ResolveLoop(res, hrs, j + 1, oci_by_id, resource_by_id,
                 [out EXCEPT !.unmapped_helm = Append(@, hr)])

\* what one run of the summary reports; after an exception main prints the
\* error and exits 1: nothing of the table is reported
NoSummary ==
    [ran |-> FALSE, error |-> FALSE,
     helm_releases |-> <<>>, oci_repositories |-> <<>>, resource_definitions |-> <<>>,
     complete_mappings |-> <<>>, unmapped_helm |-> <<>>]

analyze_kro_mappings(res) ==
    LET lists == Classify(res, 1, NoLists)
        oci_by_id == ById(res, lists.oci_repositories, 1, EmptyTable)
        resource_by_id == ById(res, lists.resource_definitions, 1, EmptyTable)
        out == ResolveLoop(res, lists.helm_releases, 1, oci_by_id, resource_by_id,
                   [error |-> FALSE, complete_mappings |-> <<>>, unmapped_helm |-> <<>>])
    IN  IF out.error
        THEN [NoSummary EXCEPT !.ran = TRUE, !.error = TRUE]
        ELSE [ran |-> TRUE, error |-> FALSE,
              helm_releases |-> lists.helm_releases,
              oci_repositories |-> lists.oci_repositories,
              resource_definitions |-> lists.resource_definitions,
              complete_mappings |-> out.complete_mappings,
              unmapped_helm |-> out.unmapped_helm]

\* KROAnalyzer.map_helm_to_oci: the list of (helm_release, corresponding_oci)
RECURSIVE HelmToOciLoop(_, _, _, _, _)
HelmToOciLoop(res, hrs, j, oci_by_id, mappings) ==
    IF j > Len(hrs) THEN mappings
    ELSE
    LET chart_ref_name == extract_chart_ref_name(res[hrs[j]])
        oci_var_name == IF Truthy(chart_ref_name)
                        THEN parse_template_expression(chart_ref_name) ELSE None
    IN  IF Truthy(oci_var_name) /\ oci_var_name \in DOMAIN oci_by_id
        THEN HelmToOciLoop(res, hrs, j + 1, oci_by_id,
                 Append(mappings, <<hrs[j], oci_by_id[oci_var_name]>>))
        ELSE HelmToOciLoop(res, hrs, j + 1, oci_by_id, mappings)

map_helm_to_oci(res) ==
    HelmToOciLoop(res, find_helm_releases(res), 1,
                  ById(res, find_oci_repositories(res), 1, EmptyTable), <<>>)

\* KROAnalyzer.map_oci_to_resource: the list of (oci_repository, corresponding_resource)
RECURSIVE OciToResourceLoop(_, _, _, _, _)
OciToResourceLoop(res, ocis, j, resource_by_id, mappings) ==
    IF j > Len(ocis) THEN mappings
    ELSE
    LET oci_url == extract_oci_url(res[ocis[j]])
        resource_var_name == IF Truthy(oci_url)
                             THEN parse_oci_url_template(oci_url) ELSE None
    IN  IF Truthy(resource_var_name) /\ resource_var_name \in DOMAIN resource_by_id
        THEN OciToResourceLoop(res, ocis, j + 1, resource_by_id,
                 Append(mappings, <<ocis[j], resource_by_id[resource_var_name]>>))
        ELSE OciToResourceLoop(res, ocis, j + 1, resource_by_id, mappings)

map_oci_to_resource(res) ==
    OciToResourceLoop(res, find_oci_repositories(res), 1,
                      ById(res, find_resources(res), 1, EmptyTable), <<>>)

\* oci_to_resource_map of print_analysis: keyed by the id of the
\* OCIRepository, a later pair replaces an earlier one under the same id
RECURSIVE OciToResourceMap(_, _, _, _)
OciToResourceMap(res, pairs, j, table) ==
    IF j > Len(pairs) THEN table
    ELSE IF ~Truthy(res[pairs[j][1]].id) THEN OciToResourceMap(res, pairs, j + 1, table)
    ELSE OciToResourceMap(res, pairs, j + 1,
              [name \in DOMAIN table \cup {res[pairs[j][1]].id} |->
                  IF name = res[pairs[j][1]].id THEN pairs[j][2] ELSE table[name]])

\* the chain print_analysis prints for one pair of helm_to_oci_mappings
PrintedChain(res, pair, oci_to_resource_map) ==
    IF res[pair[2]].id \in DOMAIN oci_to_resource_map
    THEN LET resource == oci_to_resource_map[res[pair[2]].id]
         IN  Chain(pair[1], pair[2], resource,
                   extract_resource_reference_info(res[resource]))
    ELSE Chain(pair[1], pair[2], 0, NoRefInfo)

\* the loop that fills oci_to_resource_map calls
\* extract_resource_reference_info for every pair whose OCIRepository has an id
MapRaises(res, pairs) ==
    \E j \in 1..Len(pairs) :
        Truthy(res[pairs[j][1]].id) /\ RaisesAttributeError(res[pairs[j][2]])

\* {x['id'] for x, _ in pairs} raises KeyError on an entry without id
RaisesKeyError(res, pairs) == \E j \in 1..Len(pairs) : res[pairs[j][1]].id = None

MappedIds(res, pairs) == {res[pairs[j][1]].id : j \in 1..Len(pairs)}

\* [x for x in group if x.get('id') not in mapped_ids]
Unmapped(res, group, mapped_ids) ==
    SelectSeq(group, LAMBDA k : res[k].id \notin mapped_ids)

NoAnalysis ==
    [ran |-> FALSE, error |-> FALSE,
     helm_releases |-> <<>>, oci_repositories |-> <<>>, resources |-> <<>>,
     helm_to_oci_mappings |-> <<>>, oci_to_resource_mappings |-> <<>>,
     chains |-> <<>>, unmapped_helm |-> <<>>, unmapped_oci |-> <<>>,
     exported |-> FALSE, rows |-> <<>>]

\* what one run of print_analysis prints; the AttributeError of line 246 and
\* the KeyError of line 302 or 316 end the run with what was printed before
print_analysis(res) ==
    LET helm_releases == find_helm_releases(res)
        oci_repositories == find_oci_repositories(res)
        helm_to_oci_mappings == map_helm_to_oci(res)
        oci_to_resource_mappings == map_oci_to_resource(res)
        oci_to_resource_map == OciToResourceMap(res, oci_to_resource_mappings, 1, EmptyTable)
        printed == [ran |-> TRUE, error |-> FALSE,
                    helm_releases |-> helm_releases,
                    oci_repositories |-> oci_repositories,
                    resources |-> find_resources(res),
                    helm_to_oci_mappings |-> helm_to_oci_mappings,
                    oci_to_resource_mappings |-> oci_to_resource_mappings,
                    chains |-> [j \in 1..Len(helm_to_oci_mappings) |->
                                   PrintedChain(res, helm_to_oci_mappings[j], oci_to_resource_map)],
                    unmapped_helm |-> <<>>, unmapped_oci |-> <<>>,
                    exported |-> FALSE, rows |-> <<>>]
    IN  IF MapRaises(res, oci_to_resource_mappings)
        THEN [printed EXCEPT !.error = TRUE, !.chains = <<>>]
        ELSE IF RaisesKeyError(res, helm_to_oci_mappings)
        THEN [printed EXCEPT !.error = TRUE]
        ELSE IF RaisesKeyError(res, oci_to_resource_mappings)
        THEN [printed EXCEPT !.error = TRUE,
                  !.unmapped_helm = Unmapped(res, helm_releases,
                                             MappedIds(res, helm_to_oci_mappings))]
        ELSE [printed EXCEPT
                  !.unmapped_helm = Unmapped(res, helm_releases,
                                             MappedIds(res, helm_to_oci_mappings)),
                  !.unmapped_oci = Unmapped(res, oci_repositories,
                                            MappedIds(res, oci_to_resource_mappings))]

\* ref_info['referencePath'] or '', ref_info['resourceName'] or ''
OrEmpty(v) == IF Truthy(v) THEN v ELSE <<>>

\* a data row of the exchange file: the entries it was written from
\* (resource = 0: the four Resource columns are empty) and the two columns
\* the correlator reads
Row(chain) ==
    [hr |-> chain.hr, oci |-> chain.oci, resource |-> chain.resource,
     Resource_ReferencePath |-> OrEmpty(chain.ref_info.referencePath),
     Resource_ResourceName |-> OrEmpty(chain.ref_info.resourceName)]

\* KROAnalyzer.export_csv: one row per pair of helm_to_oci_mappings, joined
\* with oci_to_resource_map by the id of its OCIRepository
export_csv(res) ==
    LET helm_to_oci_mappings == map_helm_to_oci(res)
        oci_to_resource_map ==
            OciToResourceMap(res, map_oci_to_resource(res), 1, EmptyTable)
    IN  [j \in 1..Len(helm_to_oci_mappings) |->
            Row(PrintedChain(res, helm_to_oci_mappings[j], oci_to_resource_map))]

(***************************************************************************)
(* The analysis of one RGD document                                        *)
(***************************************************************************)
nonKroVars == <<corrVars, exprVars, verVars, updVars, grpVars>>

\* the document gains one entry of spec.resources
AddResource ==
    /\ ~summary.ran /\ ~analysis.ran
    /\ Len(resources) < MaxResources
    /\ \E entry \in ResourceUniverse : resources' = Append(resources, entry)
    /\ UNCHANGED <<summary, analysis, nonKroVars>>

\* kro_helm_oci_summary.py runs on the document
AnalyzeKroMappings ==
    /\ ~summary.ran
    /\ summary' = analyze_kro_mappings(resources)
    /\ UNCHANGED <<resources, analysis, nonKroVars>>

\* analyze_kro_helm_oci_mapping.py runs on the document
PrintAnalysis ==
    /\ ~analysis.ran
    /\ analysis' = print_analysis(resources)
    /\ UNCHANGED <<resources, summary, nonKroVars>>

\* main of analyze_kro_helm_oci_mapping.py after print_analysis returned:
\* the answer to "Export results to CSV?" is yes
ExportCsv ==
    /\ analysis.ran /\ ~analysis.error /\ ~analysis.exported
    /\ analysis' = [analysis EXCEPT !.exported = TRUE, !.rows = export_csv(resources)]
    /\ UNCHANGED <<resources, summary, nonKroVars>>

KroNext == AddResource \/ AnalyzeKroMappings \/ PrintAnalysis \/ ExportCsv

(***************************************************************************)
(* Properties of the classifier and the chain resolvers                    *)
(***************************************************************************)
\* seq lists positions of the document in increasing order
IsSubsequence(seq) ==
    /\ \A j \in 1..Len(seq) : seq[j] \in 1..Len(resources)
    /\ \A i, j \in 1..Len(seq) : i < j => seq[i] < seq[j]

Range(seq) == {seq[j] : j \in 1..Len(seq)}

\* the three lists of one classifier run, as the claim describes them
WellClassified(hrs, ocis, rs) ==
    /\ IsSubsequence(hrs) /\ IsSubsequence(ocis) /\ IsSubsequence(rs)
    /\ Range(hrs) \cap Range(ocis) = {}
    /\ Range(hrs) \cap Range(rs) = {}
    /\ Range(ocis) \cap Range(rs) = {}
    /\ Len(hrs) + Len(ocis) + Len(rs) <= Len(resources)
    /\ \A k \in Range(hrs) : resources[k].kind = "HelmRelease"
    /\ \A k \in Range(ocis) : resources[k].kind = "OCIRepository"
    /\ \A k \in Range(rs) : /\ resources[k].kind = "Resource"
                            /\ resources[k].apiVersion = OcmApiVersion
    /\ \A k \in 1..Len(resources) :
           resources[k].template # "mapping"
               => k \notin Range(hrs) \cup Range(ocis) \cup Range(rs)

\* the only exception of the summary: a chartRef.name that is no string
SomeChartRefIsNoString ==
    \E k \in 1..Len(resources) :
        /\ resources[k].template = "mapping"
        /\ resources[k].kind = "HelmRelease"
        /\ resources[k].chartRef = NonString

\* the other exception of the summary: a Resource whose byReference.resource
\* key has no value
SomeResourceIsNull ==
    \E k \in 1..Len(resources) :
        /\ resources[k].template = "mapping"
        /\ resources[k].kind = "Resource"
        /\ RaisesAttributeError(resources[k])

\* C6: the three lists of the classifier (KROAnalyzer.find_* and the loop of
\* analyze_kro_mappings) are pairwise disjoint subsequences of
\* spec.resources whose sizes sum to at most its size; every element has
\* the template.kind of its list (and the OCM apiVersion for Resources);
\* an entry without template or with a template that is no mapping is in
\* none of the lists, and it makes neither program fail.
C6_ClassifierListsAreTaggedSubsequences ==
    /\ analysis.ran =>
           WellClassified(analysis.helm_releases, analysis.oci_repositories,
                          analysis.resources)
    /\ summary.ran /\ ~summary.error =>
           WellClassified(summary.helm_releases, summary.oci_repositories,
                          summary.resource_definitions)
    /\ summary.ran /\ summary.error => SomeChartRefIsNoString \/ SomeResourceIsNull

\* both programs classified a document that holds an entry whose template
\* is missing or no mapping, a Resource of another API group, and a
\* HelmRelease
C6_Witness ==
    /\ analysis.ran /\ summary.ran /\ ~summary.error
    /\ \E i, j, k \in 1..Len(resources) :
           /\ resources[i].template # "mapping"
           /\ resources[j].kind = "Resource" /\ resources[j].apiVersion # OcmApiVersion
           /\ resources[k].kind = "HelmRelease"
           /\ analysis.helm_releases = <<k>> /\ summary.helm_releases = <<k>>
           /\ analysis.resources = <<>> /\ summary.resource_definitions = <<>>

\* the positions of the classified HelmReleases of the document
HelmReleasePositions ==
    {k \in 1..Len(resources) :
        resources[k].template = "mapping" /\ resources[k].kind = "HelmRelease"}

\* name is the id of a classified entry of the kind
KnownId(name, kind) ==
    \E k \in 1..Len(resources) :
        /\ resources[k].template = "mapping"
        /\ resources[k].kind = kind
        /\ kind = "Resource" => resources[k].apiVersion = OcmApiVersion
        /\ resources[k].id = name

\* the identifier the expression of chartRef.name names, None without one
NamedOci(k) ==
    IF IsString(resources[k].chartRef)
    THEN parse_template_expression(resources[k].chartRef) ELSE None

\* the identifier the registry expression of url names, None without one
NamedResource(k) ==
    IF IsString(resources[k].url)
    THEN parse_oci_url_template(resources[k].url) ELSE None

\* chartRef.name of the HelmRelease names a known OCIRepository id
FirstEdgeResolves(h) ==
    NamedOci(h) # None /\ KnownId(NamedOci(h), "OCIRepository")

\* url of the OCIRepository names a known Resource id
SecondEdgeResolves(o) ==
    NamedResource(o) # None /\ KnownId(NamedResource(o), "Resource")

\* the chains of the summary for HelmRelease h are as the claim says
SummaryResolves(h) ==
    LET mine == {j \in 1..Len(summary.complete_mappings) :
                    summary.complete_mappings[j].hr = h}
    IN  IF FirstEdgeResolves(h)
        THEN /\ Cardinality(mine) = 1
             /\ h \notin Range(summary.unmapped_helm)
             /\ \A j \in mine :
                    LET c == summary.complete_mappings[j]
                    IN  /\ resources[c.oci].kind = "OCIRepository"
                        /\ resources[c.oci].id = NamedOci(h)
                        /\ IF SecondEdgeResolves(c.oci)
                           THEN /\ c.resource # 0
                                /\ resources[c.resource].kind = "Resource"
                                /\ resources[c.resource].id = NamedResource(c.oci)
                           ELSE c.resource = 0
        ELSE /\ mine = {}
             /\ h \in Range(summary.unmapped_helm)

\* the edges of KROAnalyzer for HelmRelease h are as the claim says
AnalyzerResolves(h) ==
    LET mine == {j \in 1..Len(analysis.helm_to_oci_mappings) :
                    analysis.helm_to_oci_mappings[j][1] = h}
    IN  IF FirstEdgeResolves(h)
        THEN /\ Cardinality(mine) = 1
             /\ \A j \in mine :
                    LET o == analysis.helm_to_oci_mappings[j][2]
                        edges == {i \in 1..Len(analysis.oci_to_resource_mappings) :
                                     analysis.oci_to_resource_mappings[i][1] = o}
                    IN  /\ resources[o].kind = "OCIRepository"
                        /\ resources[o].id = NamedOci(h)
                        /\ IF SecondEdgeResolves(o)
                           THEN /\ Cardinality(edges) = 1
                                /\ \A i \in edges :
                                       LET r == analysis.oci_to_resource_mappings[i][2]
                                       IN  /\ resources[r].kind = "Resource"
                                           /\ resources[r].id = NamedResource(o)
                           ELSE edges = {}
        ELSE mine = {}

ReportedExactlyOnce(hrs, unmapped) ==
    /\ \A h \in HelmReleasePositions :
           Cardinality({j \in 1..Len(hrs) : hrs[j] = h})
             + Cardinality({j \in 1..Len(unmapped) : unmapped[j] = h}) = 1
    /\ IsSubsequence(hrs)
    /\ IsSubsequence(unmapped)

\* C5: every classified HelmRelease is reported exactly once, in the chain
\* list or in the unresolved list, never in both and never in neither, and
\* both lists follow the order of the document.  Stated for the runs that
\* end without exception.
C5_EachHelmReleaseReportedOnce ==
    /\ summary.ran /\ ~summary.error =>
           ReportedExactlyOnce(
               [j \in 1..Len(summary.complete_mappings) |-> summary.complete_mappings[j].hr],
               summary.unmapped_helm)
    /\ analysis.ran /\ ~analysis.error =>
           ReportedExactlyOnce(
               [j \in 1..Len(analysis.chains) |-> analysis.chains[j].hr],
               analysis.unmapped_helm)


(***************************************************************************)
(* The reference information of a resolved Resource                        *)
(***************************************************************************)
\* the ReferenceInfo of a Resource as the specification words it: the name
\* of the first element of byReference.referencePath when that list is
\* there and not empty, and byReference.resource.name; both absent when a
\* key on the way is missing
ReferenceInfoOf(entry) ==
    [referencePath |->
         IF entry.byReference.present /\ entry.byReference.referencePath # <<>>
         THEN Head(entry.byReference.referencePath) ELSE None,
     resourceName |->
         IF entry.byReference.present /\ entry.byReference.resource = "mapping"
         THEN entry.byReference.resource_name ELSE None]

\* every chain of the list that has a Resource carries its ReferenceInfo
CarryReferenceInfo(chains) ==
    \A j \in 1..Len(chains) :
        chains[j].resource # 0 =>
            chains[j].ref_info = ReferenceInfoOf(resources[chains[j].resource])

\* HelmRelease -> fooOCI -> barRes, byReference.resource.name helm-chart-foo
IsEndToEndScenario ==
    /\ Len(resources) = 3
    /\ resources[1].kind = "HelmRelease" /\ resources[1].id = fooHR
    /\ parse_template_expression(resources[1].chartRef) = fooOCI
    /\ resources[2].kind = "OCIRepository" /\ resources[2].id = fooOCI
    /\ parse_oci_url_template(resources[2].url) = barRes
    /\ IsResource(resources, 3) /\ resources[3].id = barRes
    /\ resources[3].byReference.present

HelmChartFoo == <<"h","e","l","m","-","c","h","a","r","t","-","f","o","o">>

\* C21: every fully resolved chain carries the ReferenceInfo (name of the
\* first element of byReference.referencePath when that list is there and
\* not empty, byReference.resource.name); a Resource without byReference
\* gives (absent, absent) and its chain is still reported as fully resolved;
\* the end-to-end document gives one full chain.  No Resource makes the run
\* fail: the extraction is best-effort.  (both programs)
C21_ReferenceInfoIsBestEffort ==
    /\ summary.ran /\ ~SomeChartRefIsNoString =>
           /\ ~summary.error
           /\ CarryReferenceInfo(summary.complete_mappings)
           /\ IsEndToEndScenario =>
                  /\ Len(summary.complete_mappings) = 1
                  /\ summary.complete_mappings[1].resource = 3
                  /\ resources[3].byReference.resource_name = HelmChartFoo =>
                         summary.complete_mappings[1].ref_info.resourceName = HelmChartFoo
    /\ analysis.ran =>
           /\ Len(analysis.chains) = Len(analysis.helm_to_oci_mappings)
           /\ CarryReferenceInfo(analysis.chains)
           /\ IsEndToEndScenario =>
                  /\ Len(analysis.chains) = 1
                  /\ analysis.chains[1].resource = 3
                  /\ resources[3].byReference.resource_name = HelmChartFoo =>
                         analysis.chains[1].ref_info.resourceName = HelmChartFoo

(***************************************************************************)
(* The lookup tables                                                       *)
(***************************************************************************)
\* the entries of the list that carry the id of entry k
SameId(group, k) ==
    {group[j] : j \in {i \in 1..Len(group) : resources[group[i]].id = resources[k].id}}

\* k is the last entry of the list with its id
IsLastOfItsId(group, k) ==
    /\ resources[k].id # None
    /\ \A m \in SameId(group, k) : m <= k

\* no two pairs of the list start with the same entry
AtMostOneTarget(pairs) ==
    \A i, j \in 1..Len(pairs) : pairs[i][1] = pairs[j][1] => i = j

\* C22: each HelmRelease is joined to at most one OCIRepository and each
\* OCIRepository to at most one Resource; of several OCIRepositories (or
\* Resources) with one id the lookup table keeps the last in document
\* order, and every pair that refers to the id holds that last entry.
\* (KROAnalyzer.map_helm_to_oci, map_oci_to_resource; analyze_kro_mappings)
C22_LookupKeepsLastEntryOfAnId ==
    /\ analysis.ran =>
           /\ AtMostOneTarget(analysis.helm_to_oci_mappings)
           /\ AtMostOneTarget(analysis.oci_to_resource_mappings)
           /\ \A j \in 1..Len(analysis.helm_to_oci_mappings) :
                  IsLastOfItsId(analysis.oci_repositories,
                                analysis.helm_to_oci_mappings[j][2])
           /\ \A j \in 1..Len(analysis.oci_to_resource_mappings) :
                  IsLastOfItsId(analysis.resources,
                                analysis.oci_to_resource_mappings[j][2])
    /\ summary.ran /\ ~summary.error =>
           /\ \A i, j \in 1..Len(summary.complete_mappings) :
                  summary.complete_mappings[i].hr = summary.complete_mappings[j].hr
                      => i = j
           /\ \A j \in 1..Len(summary.complete_mappings) :
                  /\ IsLastOfItsId(summary.oci_repositories,
                                   summary.complete_mappings[j].oci)
                  /\ summary.complete_mappings[j].resource # 0 =>
                         IsLastOfItsId(summary.resource_definitions,
                                       summary.complete_mappings[j].resource)

\* both programs ran on a document with two OCIRepositories of one id and a
\* HelmRelease that refers to the id, and joined it to the second
C22_Witness ==
    /\ analysis.ran /\ summary.ran /\ ~summary.error
    /\ \E h, o1, o2 \in 1..Len(resources) :
           /\ o1 < o2
           /\ IsOCIRepository(resources, o1) /\ IsOCIRepository(resources, o2)
           /\ resources[o1].id = resources[o2].id
           /\ analysis.helm_to_oci_mappings = << <<h, o2>> >>
           /\ Len(summary.complete_mappings) = 1
           /\ summary.complete_mappings[1].hr = h
           /\ summary.complete_mappings[1].oci = o2
(***************************************************************************)
(* The join of the two edge lists, on documents of up to MaxChainLen       *)
(* entries drawn from the entries fooHR, fooOCI and barRes of              *)
(* ResourceUniverse: enough for a HelmRelease, two OCIRepositories of one  *)
(* id and a Resource                                                       *)
(***************************************************************************)
\* Bound of the document: the number of entries of spec.resources
MaxChainLen == 4

ChainUniverse ==
    {entry \in ResourceUniverse :
        /\ entry.id \in {fooHR, fooOCI, barRes}
        /\ entry.template = "mapping"}

\* the document gains one entry of spec.resources
AddChainResource ==
    /\ ~summary.ran /\ ~analysis.ran
    /\ Len(resources) < MaxChainLen
    /\ \E entry \in ChainUniverse : resources' = Append(resources, entry)
    /\ UNCHANGED <<summary, analysis, nonKroVars>>

JoinNext == AddChainResource \/ AnalyzeKroMappings \/ PrintAnalysis \/ ExportCsv

(***************************************************************************)
(* Properties of the join                                                  *)
(***************************************************************************)
\* the Resource of the chain is the one the registry expression in the url
\* of the chain's OCIRepository names
FollowsUrl(chain) ==
    chain.resource # 0 =>
        /\ IsResource(resources, chain.resource)
        /\ parse_oci_url_template(resources[chain.oci].url)
               = resources[chain.resource].id

\* C27: in every row export_csv writes and every chain print_analysis
\* prints, a Resource shown is the one referenced by the registry
\* expression in the url of the OCIRepository of the same row, also when
\* several OCIRepositories share an id.
C27_RowResourceFollowsRowUrl ==
    /\ analysis.ran =>
           \A j \in 1..Len(analysis.chains) : FollowsUrl(analysis.chains[j])
    /\ analysis.exported =>
           \A j \in 1..Len(analysis.rows) : FollowsUrl(analysis.rows[j])

\* C28: the two chain resolvers agree on every document: the chain records
\* (HelmRelease, OCIRepository, Resource or none, ReferenceInfo) that
\* KROAnalyzer exports are, in order, the chains analyze_kro_mappings
\* returns, and both report the same HelmReleases as unresolved.  Stated
\* for the documents on which both programs run to their end.
C28_ResolversAgree ==
    summary.ran /\ ~summary.error /\ analysis.exported =>
           /\ analysis.rows =
                  [j \in 1..Len(summary.complete_mappings) |->
                      Row(summary.complete_mappings[j])]
           /\ analysis.unmapped_helm = summary.unmapped_helm

(***************************************************************************)
(* ImageMappingAnalyzer._validate_semantic_version                         *)
(***************************************************************************)
\* the class [.0-9a-zA-Z-] of the sanitizer
SanitizerClass == Digits \cup Letters \cup {".", "-"}

\* re.sub(r'[^.0-9a-zA-Z-]', '-', version)
Sanitize(s) == [i \in 1..Len(s) |-> IF s[i] \in SanitizerClass THEN s[i] ELSE "-"]

\* the class [0-9a-zA-Z-] of the identifiers
IdentifierClass == Digits \cup Letters \cup {"-"}

\* the position of the first c in s at or after position i, Len(s) + 1 without one
FirstOf(s, c, i) == Min({k \in i..Len(s) : s[k] = c} \cup {Len(s) + 1})

\* s[a..b], the empty string when a > b
Slice(s, a, b) == [i \in 1..(IF b >= a THEN b - a + 1 ELSE 0) |-> s[a + i - 1]]

\* the pieces of s between its dots, in order
RECURSIVE SplitDots(_)
SplitDots(s) ==
    LET d == FirstOf(s, ".", 1)
    IN  IF d > Len(s) THEN <<s>>
        ELSE <<Slice(s, 1, d - 1)>> \o SplitDots(Slice(s, d + 1, Len(s)))

\* 0|[1-9]\d*
IsNumericIdentifier(s) ==
    /\ Len(s) > 0
    /\ \A i \in 1..Len(s) : s[i] \in Digits
    /\ Len(s) > 1 => s[1] # "0"

\* 0|[1-9]\d*|\d*[a-zA-Z-][0-9a-zA-Z-]*
IsPrereleaseIdentifier(s) ==
    \/ IsNumericIdentifier(s)
    \/ /\ \A i \in 1..Len(s) : s[i] \in IdentifierClass
       /\ \E i \in 1..Len(s) : s[i] \notin Digits

\* [0-9a-zA-Z-]+
IsBuildIdentifier(s) ==
    /\ Len(s) > 0
    /\ \A i \in 1..Len(s) : s[i] \in IdentifierClass

\* (0|[1-9]\d*)(?:\.(0|[1-9]\d*))?(?:\.(0|[1-9]\d*))?
IsCore(s) ==
    LET ids == SplitDots(s)
    IN  Len(ids) <= 3 /\ \A i \in 1..Len(ids) : IsNumericIdentifier(ids[i])

\* the prerelease group: identifiers joined by dots
IsPrerelease(s) ==
    LET ids == SplitDots(s)
    IN  \A i \in 1..Len(ids) : IsPrereleaseIdentifier(ids[i])

\* the build group: identifiers joined by dots
IsBuild(s) ==
    LET ids == SplitDots(s)
    IN  \A i \in 1..Len(ids) : IsBuildIdentifier(ids[i])

\* re.match(semver_pattern, s): ^[v]? core (?:-prerelease)? (?:\+build)? $
\* No group but the build group admits "+", and the core admits no "-":
\* the build group starts after the first "+", the prerelease group after
\* the first "-" before it.
SemverMatch(s) ==
    LET start == IF Len(s) > 0 /\ s[1] = "v" THEN 2 ELSE 1
        plus  == FirstOf(s, "+", 1)
        head  == Slice(s, start, plus - 1)
        dash  == FirstOf(head, "-", 1)
    IN  /\ IsCore(Slice(head, 1, dash - 1))
        /\ dash <= Len(head) => IsPrerelease(Slice(head, dash + 1, Len(head)))
        /\ plus <= Len(s) => IsBuild(Slice(s, plus + 1, Len(s)))

\* '0.0.0+'
ZeroPrefix == <<"0", ".", "0", ".", "0", "+">>

_validate_semantic_version(v) ==
    LET sanitized_version == Sanitize(v)
    IN  IF SemverMatch(sanitized_version) THEN sanitized_version
        ELSE ZeroPrefix \o sanitized_version

\* Bound of the input: the number of characters of a version string
MaxVersionLen == 4

\* the characters version strings are typed from: digits with and without
\* leading zero, a letter, the "v" prefix, the separators of the grammar,
\* and a character the sanitizer replaces
VersionChars == {"0", "1", "a", "v", ".", "-", "+", "_"}

nonVerVars == <<corrVars, kroVars, exprVars, updVars, grpVars>>

\* deployed_image.oci_version gains one character
TypeChar ==
    /\ vpc = "input"
    /\ Len(version) < MaxVersionLen
    /\ \E c \in VersionChars : version' = Append(version, c)
    /\ UNCHANGED <<validated, revalidated, vpc, nonVerVars>>

\* validated_version = self._validate_semantic_version(deployed_image.oci_version)
Validate ==
    /\ vpc = "input"
    /\ validated' = _validate_semantic_version(version)
    /\ vpc' = "validated"
    /\ UNCHANGED <<version, revalidated, nonVerVars>>

\* the validator applied to its own result
Revalidate ==
    /\ vpc = "validated"
    /\ revalidated' = _validate_semantic_version(validated)
    /\ vpc' = "revalidated"
    /\ UNCHANGED <<version, validated, nonVerVars>>

VerNext == TypeChar \/ Validate \/ Revalidate

(***************************************************************************)
(* Properties of the version validator                                     *)
(***************************************************************************)
\* C9: for every version string, the empty string and strings with leading,
\* trailing or consecutive dots included, the validator returns a string
\* that matches the semantic-version grammar; in particular the
\* '0.0.0+'-prefixed result does.
C9_ValidatedVersionMatchesGrammar ==
    vpc # "input" => SemverMatch(validated)

\* C10: for every version string that already matches the grammar, the
\* validator applied to its own result returns that result again.
C10_ValidatorIsIdempotentOnValidVersions ==
    vpc = "revalidated" /\ SemverMatch(version) => revalidated = validated

\* C11: a version string that already matches the grammar is returned
\* unchanged, and a string that does not match after sanitization is
\* returned as '0.0.0+' followed by the input with every character outside
\* [.0-9a-zA-Z-] replaced by '-'.
C11_ValidVersionsUnchangedOthersPrefixed ==
    vpc # "input" =>
        /\ SemverMatch(version) => validated = version
        /\ ~SemverMatch(Sanitize(version)) =>
               /\ Len(validated) = Len(ZeroPrefix) + Len(version)
               /\ \A i \in 1..Len(ZeroPrefix) : validated[i] = ZeroPrefix[i]
               /\ \A i \in 1..Len(version) :
                      validated[Len(ZeroPrefix) + i] =
                          (IF version[i] \in SanitizerClass THEN version[i] ELSE "-")

(***************************************************************************)
(* The manifest patcher                                                    *)
(*   ImageMappingAnalyzer._update_component_constructor_file               *)
(*                                                                         *)
(* A manifest is the list f.readlines() gives: every line a string that    *)
(* ends with its newline.  Positions are those of Python: position p lies  *)
(* before line p + 1 of the sequence.                                      *)
(***************************************************************************)
\* len(line) - len(line.lstrip())
Indent(line) ==
    Min({k \in 1..Len(line) : line[k] \notin WhiteSpace} \cup {Len(line) + 1}) - 1

\* line.strip()
Strip(line) ==
    LET inner == {k \in 1..Len(line) : line[k] \notin WhiteSpace}
    IN  IF inner = {} THEN <<>>
        ELSE SubSeq(line, Min(inner), CHOOSE k \in inner : \A m \in inner : m <= k)

\* ''.join(lines[a..b]), the part of a..b that lies in the list
RECURSIVE Join(_, _, _)
Join(lines, a, b) ==
    IF a > b \/ a > Len(lines) THEN <<>>
    ELSE IF a < 1 THEN Join(lines, 1, b)
    ELSE lines[a] \o Join(lines, a + 1, b)

DashName      == <<"-", " ", "n", "a", "m", "e", ":">>
ImageDash     == <<"i", "m", "a", "g", "e", "-">>
TypeOciImage  == <<"t", "y", "p", "e", ":", " ", "o", "c", "i", "I", "m", "a", "g", "e">>
NameColon     == <<"n", "a", "m", "e", ":", " ">>
HelmChartWord == <<"h", "e", "l", "m", "C", "h", "a", "r", "t">>
Hash          == <<"#">>
NewLine       == <<"\n">>

\* the look-ahead "for j in range(i + 1, min(i + 10, len(lines)))": j is
\* the line looked at, last the last line of the range
RECURSIVE LooksAheadToOciImage(_, _, _)
LooksAheadToOciImage(lines, j, last) ==
    IF j > last THEN FALSE
    ELSE IF Contains(lines[j], TypeOciImage) THEN TRUE
    ELSE IF StartsWith(Strip(lines[j]), DashName) THEN FALSE
    ELSE LooksAheadToOciImage(lines, j + 1, last)

\* the line of a resource block's end, seen from a block of indent_level:
\* the next resource, or a dedented line that is no comment
EndsBlock(line, indent_level) ==
    \/ Indent(line) <= indent_level /\ StartsWith(Strip(line), DashName)
    \/ /\ Indent(line) < indent_level
       /\ Strip(line) # <<>>
       /\ ~StartsWith(Strip(line), Hash)

\* "Skip this entire resource": the first line at or after i that is not
\* blank and ends the block, Len(lines) + 1 without one
RECURSIVE SkipResource(_, _, _)
SkipResource(lines, i, indent_level) ==
    IF i > Len(lines) THEN i
    ELSE IF Strip(lines[i]) = <<>> THEN SkipResource(lines, i + 1, indent_level)
    ELSE IF EndsBlock(lines[i], indent_level) THEN i
    ELSE SkipResource(lines, i + 1, indent_level)

\* "Remove existing ociImage resources from lines first": new_lines
RECURSIVE RemoveOciImages(_, _, _)
RemoveOciImages(lines, i, new_lines) ==
    IF i > Len(lines) THEN new_lines
    ELSE IF /\ Contains(lines[i], DashName)
            /\ Contains(lines[i], ImageDash)
            /\ LooksAheadToOciImage(lines, i + 1,
                   IF i + 9 < Len(lines) THEN i + 9 ELSE Len(lines))
         THEN RemoveOciImages(lines, SkipResource(lines, i + 1, Indent(lines[i])), new_lines)
         ELSE RemoveOciImages(lines, i + 1, Append(new_lines, lines[i]))

\* f"name: {chart_name}" in line and "helmChart" in the lines around it
IsChartLine(new_lines, i, chart_name) ==
    /\ Contains(new_lines[i], NameColon \o chart_name)
    /\ Contains(Join(new_lines, i - 2, i + 4), HelmChartWord)

\* chart_line_idx: the first line that passes for the chart,
\* Len(new_lines) + 1 for None
ChartLineIdx(new_lines, chart_name) ==
    Min({i \in 1..Len(new_lines) : IsChartLine(new_lines, i, chart_name)} \cup {Len(new_lines) + 1})

\* chart_end_idx: the position before the first line after the chart line
\* that is not blank and ends its block, len(new_lines) without one
ChartEndIdx(new_lines, i) ==
    SkipResource(new_lines, i + 1, Indent(new_lines[i])) - 1

base_indent == <<" ", " ", " ", " ", " ", " ">>

\* the six lines of one image resource
ImageYamlLines(resource) ==
    << base_indent \o <<"-", " ", "n", "a", "m", "e", ":", " ">> \o resource.name \o NewLine,
       base_indent \o <<" ", " ", "t", "y", "p", "e", ":", " ">> \o resource.type \o NewLine,
       base_indent \o <<" ", " ", "v", "e", "r", "s", "i", "o", "n", ":", " ", "\"">>
           \o resource.version \o <<"\"">> \o NewLine,
       base_indent \o <<" ", " ", "a", "c", "c", "e", "s", "s", ":">> \o NewLine,
       base_indent \o <<" ", " ", " ", " ", "t", "y", "p", "e", ":", " ">>
           \o resource.access_type \o NewLine,
       base_indent \o <<" ", " ", " ", " ", "i", "m", "a", "g", "e", "R", "e", "f", "e", "r", "e", "n", "c", "e", ":", " ">>
           \o resource.imageReference \o NewLine >>

\* image_yaml_lines of a chart: the lines of its resources, in order
RECURSIVE ImagesYamlLines(_, _)
ImagesYamlLines(resources_of_chart, k) ==
    IF k > Len(resources_of_chart) THEN <<>>
    ELSE ImageYamlLines(resources_of_chart[k]) \o ImagesYamlLines(resources_of_chart, k + 1)

\* images_by_chart: the image resources of the items, grouped by the chart
\* name of their mapping, each group in item order
RECURSIVE ImagesByChart(_, _, _)
ImagesByChart(image_data_list, k, images_by_chart) ==
    IF k > Len(image_data_list) THEN images_by_chart
    ELSE IF ~Truthy(image_data_list[k].chart_name)
    THEN ImagesByChart(image_data_list, k + 1, images_by_chart)
    ELSE LET chart_name == image_data_list[k].chart_name
             sofar == IF chart_name \in DOMAIN images_by_chart
                      THEN images_by_chart[chart_name] ELSE <<>>
         IN  ImagesByChart(image_data_list, k + 1,
                 [c \in DOMAIN images_by_chart \cup {chart_name} |->
                     IF c = chart_name THEN Append(sofar, image_data_list[k].image_resource)
                     ELSE images_by_chart[c]])

\* new_lines[chart_end_idx - 1] += '\n' when that line has no newline
EnsureNewline(new_lines, chart_end_idx) ==
    IF /\ chart_end_idx > 0
       /\ (Len(new_lines[chart_end_idx]) = 0
           \/ new_lines[chart_end_idx][Len(new_lines[chart_end_idx])] # "\n")
    THEN [new_lines EXCEPT ![chart_end_idx] = @ \o NewLine]
    ELSE new_lines

\* the loop "for chart_info in helm_charts_info": new_lines (a line may
\* gain its newline) and lines_to_insert, position -> lines; a later chart
\* with the same position replaces the lines of an earlier one
RECURSIVE InsertionLoop(_, _, _, _, _)
InsertionLoop(helm_charts_info, k, images_by_chart, new_lines, lines_to_insert) ==
    IF k > Len(helm_charts_info)
    THEN [new_lines |-> new_lines, lines_to_insert |-> lines_to_insert]
    ELSE
    LET chart_name == helm_charts_info[k]
    IN  IF chart_name \notin DOMAIN images_by_chart
        THEN InsertionLoop(helm_charts_info, k + 1, images_by_chart, new_lines, lines_to_insert)
        ELSE
        LET chart_line_idx == ChartLineIdx(new_lines, chart_name)
        IN  IF chart_line_idx > Len(new_lines)
            THEN InsertionLoop(helm_charts_info, k + 1, images_by_chart, new_lines, lines_to_insert)
            ELSE
            LET chart_end_idx == ChartEndIdx(new_lines, chart_line_idx)
            IN  InsertionLoop(helm_charts_info, k + 1, images_by_chart,
                    EnsureNewline(new_lines, chart_end_idx),
                    [p \in DOMAIN lines_to_insert \cup {chart_end_idx} |->
                        IF p = chart_end_idx
                        THEN ImagesYamlLines(images_by_chart[chart_name], 1)
                        ELSE lines_to_insert[p]])

\* final_lines[position:position] = lines_to_insert[position], for the
\* positions in descending order
RECURSIVE InsertAll(_, _)
InsertAll(final_lines, lines_to_insert) ==
    IF DOMAIN lines_to_insert = {} THEN final_lines
    ELSE LET position == CHOOSE p \in DOMAIN lines_to_insert :
                             \A q \in DOMAIN lines_to_insert : q <= p
         IN  InsertAll(SubSeq(final_lines, 1, position)
                           \o lines_to_insert[position]
                           \o SubSeq(final_lines, position + 1, Len(final_lines)),
                       [p \in DOMAIN lines_to_insert \ {position} |-> lines_to_insert[p]])

(***************************************************************************)
(* yaml.safe_load of a manifest.  The manifests of the model are written   *)
(* in one layout: one of the headers below, then the entries of            *)
(* components[0].resources, each starting with "- " at six spaces with     *)
(* its further keys at eight, up to the first dedented key.  For this      *)
(* layout the loader is computed from the text.                            *)
(***************************************************************************)
ResourcesIndent == 6

TypeColon == <<"t", "y", "p", "e", ":", " ">>
DashSpace == <<"-", " ">>

\* the first line at or after i that closes the resources list: a line
\* that is neither blank nor a comment and is dedented below its entries
RECURSIVE ResourcesEnd(_, _)
ResourcesEnd(lines, i) ==
    IF i > Len(lines) THEN i
    ELSE IF /\ Strip(lines[i]) # <<>>
            /\ ~StartsWith(Strip(lines[i]), Hash)
            /\ Indent(lines[i]) < ResourcesIndent
         THEN i
         ELSE ResourcesEnd(lines, i + 1)

IsEntryStart(line) ==
    Indent(line) = ResourcesIndent /\ StartsWith(Strip(line), DashSpace)

\* "key: value" of a line that holds a key of an entry: the text after the
\* dash of its first line, the text of a line at the indentation of its keys
KeyText(line) ==
    IF IsEntryStart(line) THEN SubSeq(Strip(line), Len(DashSpace) + 1, Len(Strip(line)))
    ELSE IF Indent(line) = ResourcesIndent + 2 THEN Strip(line)
    ELSE <<>>

\* the value of a key of the entry whose first line is line i, read from
\* line j on: None when the entry does not hold the key
RECURSIVE EntryValue(_, _, _, _, _)
EntryValue(lines, i, j, last, key) ==
    IF j > last \/ (j > i /\ IsEntryStart(lines[j])) THEN None
    ELSE IF StartsWith(KeyText(lines[j]), key)
         THEN SubSeq(KeyText(lines[j]), Len(key) + 1, Len(KeyText(lines[j])))
         ELSE EntryValue(lines, i, j + 1, last, key)

\* component['resources']: name and type of every entry, in order
RECURSIVE LoadResources(_, _, _)
LoadResources(lines, i, last) ==
    IF i > last THEN <<>>
    ELSE IF IsEntryStart(lines[i])
         THEN << [name |-> EntryValue(lines, i, i, last, NameColon),
                  type |-> EntryValue(lines, i, i, last, TypeColon)] >>
              \o LoadResources(lines, i + 1, last)
         ELSE LoadResources(lines, i + 1, last)

(***************************************************************************)
(* The manifests and image resources the model draws from                  *)
(***************************************************************************)
\* a component with a resources list
ValidHeader == <<
    \* components:\n
    <<"c", "o", "m", "p", "o", "n", "e", "n", "t", "s", ":", "\n">>,
    \*   - name: opendesk-element\n
    <<" ", " ", "-", " ", "n", "a", "m", "e", ":", " ", "o", "p", "e", "n", "d", "e", "s", "k", "-", "e", "l", "e", "m", "e", "n", "t", "\n">>,
    \*     version: 1.0.0\n
    <<" ", " ", " ", " ", "v", "e", "r", "s", "i", "o", "n", ":", " ", "1", ".", "0", ".", "0", "\n">>,
    \*     resources:\n
    <<" ", " ", " ", " ", "r", "e", "s", "o", "u", "r", "c", "e", "s", ":", "\n">>
>>

\* a document without the key components
NoComponentsHeader == <<
    \* name: opendesk-element\n
    <<"n", "a", "m", "e", ":", " ", "o", "p", "e", "n", "d", "e", "s", "k", "-", "e", "l", "e", "m", "e", "n", "t", "\n">>
>>

\* an empty components list
EmptyComponentsHeader == <<
    \* components: []\n
    <<"c", "o", "m", "p", "o", "n", "e", "n", "t", "s", ":", " ", "[", "]", "\n">>
>>

\* a component without the key resources
NoResourcesHeader == <<
    \* components:\n
    <<"c", "o", "m", "p", "o", "n", "e", "n", "t", "s", ":", "\n">>,
    \*   - name: opendesk-element\n
    <<" ", " ", "-", " ", "n", "a", "m", "e", ":", " ", "o", "p", "e", "n", "d", "e", "s", "k", "-", "e", "l", "e", "m", "e", "n", "t", "\n">>,
    \*     version: 1.0.0\n
    <<" ", " ", " ", " ", "v", "e", "r", "s", "i", "o", "n", ":", " ", "1", ".", "0", ".", "0", "\n">>
>>

\* 'helm-chart-opendesk-synapse'
SynapseChart == <<"h", "e", "l", "m", "-", "c", "h", "a", "r", "t", "-", "o", "p", "e", "n", "d", "e", "s", "k", "-", "s", "y", "n", "a", "p", "s", "e">>

\* 'helm-chart-opendesk-synapse-web'
SynapseWebChart == <<"h", "e", "l", "m", "-", "c", "h", "a", "r", "t", "-", "o", "p", "e", "n", "d", "e", "s", "k", "-", "s", "y", "n", "a", "p", "s", "e", "-", "w", "e", "b">>

\* 'helm-chart-opendesk-element'
ElementChart == <<"h", "e", "l", "m", "-", "c", "h", "a", "r", "t", "-", "o", "p", "e", "n", "d", "e", "s", "k", "-", "e", "l", "e", "m", "e", "n", "t">>

\* 'helm-chart-nubus'
NubusChart == <<"h", "e", "l", "m", "-", "c", "h", "a", "r", "t", "-", "n", "u", "b", "u", "s">>

\* the helmChart resource of the synapse chart
SynapseBlock == <<
    \*       - name: helm-chart-opendesk-synapse\n
    <<" ", " ", " ", " ", " ", " ", "-", " ", "n", "a", "m", "e", ":", " ", "h", "e", "l", "m", "-", "c", "h", "a", "r", "t", "-", "o", "p", "e", "n", "d", "e", "s", "k", "-", "s", "y", "n", "a", "p", "s", "e", "\n">>,
    \*         type: helmChart\n
    <<" ", " ", " ", " ", " ", " ", " ", " ", "t", "y", "p", "e", ":", " ", "h", "e", "l", "m", "C", "h", "a", "r", "t", "\n">>
>>

\* the helmChart resource of the synapse-web chart
SynapseWebBlock == <<
    \*       - name: helm-chart-opendesk-synapse-web\n
    <<" ", " ", " ", " ", " ", " ", "-", " ", "n", "a", "m", "e", ":", " ", "h", "e", "l", "m", "-", "c", "h", "a", "r", "t", "-", "o", "p", "e", "n", "d", "e", "s", "k", "-", "s", "y", "n", "a", "p", "s", "e", "-", "w", "e", "b", "\n">>,
    \*         type: helmChart\n
    <<" ", " ", " ", " ", " ", " ", " ", " ", "t", "y", "p", "e", ":", " ", "h", "e", "l", "m", "C", "h", "a", "r", "t", "\n">>
>>

\* an ociImage resource with a generated name
ImageBlock == <<
    \*       - name: image-synapse\n
    <<" ", " ", " ", " ", " ", " ", "-", " ", "n", "a", "m", "e", ":", " ", "i", "m", "a", "g", "e", "-", "s", "y", "n", "a", "p", "s", "e", "\n">>,
    \*         type: ociImage\n
    <<" ", " ", " ", " ", " ", " ", " ", " ", "t", "y", "p", "e", ":", " ", "o", "c", "i", "I", "m", "a", "g", "e", "\n">>
>>

\* an ociImage resource with another name
ForeignImageBlock == <<
    \*       - name: nginx\n
    <<" ", " ", " ", " ", " ", " ", "-", " ", "n", "a", "m", "e", ":", " ", "n", "g", "i", "n", "x", "\n">>,
    \*         type: ociImage\n
    <<" ", " ", " ", " ", " ", " ", " ", " ", "t", "y", "p", "e", ":", " ", "o", "c", "i", "I", "m", "a", "g", "e", "\n">>
>>

\* a resource of another type whose name holds 'image-'
ImageNamedBlobBlock == <<
    \*       - name: image-policy\n
    <<" ", " ", " ", " ", " ", " ", "-", " ", "n", "a", "m", "e", ":", " ", "i", "m", "a", "g", "e", "-", "p", "o", "l", "i", "c", "y", "\n">>,
    \*         type: blob\n
    <<" ", " ", " ", " ", " ", " ", " ", " ", "t", "y", "p", "e", ":", " ", "b", "l", "o", "b", "\n">>
>>

\* the helmChart resource of the synapse chart, its type written first
TypeFirstChartBlock == <<
    \*       - type: helmChart\n
    <<" ", " ", " ", " ", " ", " ", "-", " ", "t", "y", "p", "e", ":", " ", "h", "e", "l", "m", "C", "h", "a", "r", "t", "\n">>,
    \*         name: helm-chart-opendesk-synapse\n
    <<" ", " ", " ", " ", " ", " ", " ", " ", "n", "a", "m", "e", ":", " ", "h", "e", "l", "m", "-", "c", "h", "a", "r", "t", "-", "o", "p", "e", "n", "d", "e", "s", "k", "-", "s", "y", "n", "a", "p", "s", "e", "\n">>
>>

\* a resource of another type, its type written first
TypeFirstBlobBlock == <<
    \*       - type: blob\n
    <<" ", " ", " ", " ", " ", " ", "-", " ", "t", "y", "p", "e", ":", " ", "b", "l", "o", "b", "\n">>,
    \*         name: policy\n
    <<" ", " ", " ", " ", " ", " ", " ", " ", "n", "a", "m", "e", ":", " ", "p", "o", "l", "i", "c", "y", "\n">>
>>

\* a comment at the indentation of the entries
CommentBlock == <<
    \*       # matrix charts\n
    <<" ", " ", " ", " ", " ", " ", "#", " ", "m", "a", "t", "r", "i", "x", " ", "c", "h", "a", "r", "t", "s", "\n">>
>>

\* a blank line
BlankBlock == <<
    \* \n
    <<"\n">>
>>

\* the key after the resources list
SourcesBlock == <<
    \*     sources: []\n
    <<" ", " ", " ", " ", "s", "o", "u", "r", "c", "e", "s", ":", " ", "[", "]", "\n">>
>>

\* the pieces a manifest body is put together from
BlockUniverse == {SynapseBlock, SynapseWebBlock, ImageBlock, ForeignImageBlock, ImageNamedBlobBlock, TypeFirstChartBlock, TypeFirstBlobBlock, CommentBlock, BlankBlock, SourcesBlock}

\* the manifest of the second target group (app nubus): one chart
\* ocm/apps/nubus/component-constructor.yaml
NubusManifest == <<
    \* components:\n
    <<"c", "o", "m", "p", "o", "n", "e", "n", "t", "s", ":", "\n">>,
    \*   - name: opendesk-nubus\n
    <<" ", " ", "-", " ", "n", "a", "m", "e", ":", " ", "o", "p", "e", "n", "d", "e", "s", "k", "-", "n", "u", "b", "u", "s", "\n">>,
    \*     version: 1.0.0\n
    <<" ", " ", " ", " ", "v", "e", "r", "s", "i", "o", "n", ":", " ", "1", ".", "0", ".", "0", "\n">>,
    \*     resources:\n
    <<" ", " ", " ", " ", "r", "e", "s", "o", "u", "r", "c", "e", "s", ":", "\n">>,
    \*       - name: helm-chart-nubus\n
    <<" ", " ", " ", " ", " ", " ", "-", " ", "n", "a", "m", "e", ":", " ", "h", "e", "l", "m", "-", "c", "h", "a", "r", "t", "-", "n", "u", "b", "u", "s", "\n">>,
    \*         type: helmChart\n
    <<" ", " ", " ", " ", " ", " ", " ", " ", "t", "y", "p", "e", ":", " ", "h", "e", "l", "m", "C", "h", "a", "r", "t", "\n">>
>>

\* image resources, as _create_image_resource_entry builds them
SynapseImage ==
    [name |-> <<"i", "m", "a", "g", "e", "-", "s", "y", "n", "a", "p", "s", "e">>,
     type |-> <<"o", "c", "i", "I", "m", "a", "g", "e">>,
     version |-> <<"1", ".", "9", "8", ".", "0">>,
     access_type |-> <<"o", "c", "i", "A", "r", "t", "i", "f", "a", "c", "t">>,
     imageReference |-> <<"r", "e", "g", "/", "s", "y", "n", "a", "p", "s", "e", ":", "1", ".", "9", "8", ".", "0">>]

SynapseProxyImage ==
    [name |-> <<"i", "m", "a", "g", "e", "-", "s", "y", "n", "a", "p", "s", "e", "-", "n", "g", "i", "n", "x">>,
     type |-> <<"o", "c", "i", "I", "m", "a", "g", "e">>,
     version |-> <<"1", ".", "2", "5">>,
     access_type |-> <<"o", "c", "i", "A", "r", "t", "i", "f", "a", "c", "t">>,
     imageReference |-> <<"r", "e", "g", "/", "n", "g", "i", "n", "x", ":", "1", ".", "2", "5">>]

SynapseWebImage ==
    [name |-> <<"i", "m", "a", "g", "e", "-", "s", "y", "n", "a", "p", "s", "e", "-", "w", "e", "b">>,
     type |-> <<"o", "c", "i", "I", "m", "a", "g", "e">>,
     version |-> <<"1", ".", "1", "1", ".", "0">>,
     access_type |-> <<"o", "c", "i", "A", "r", "t", "i", "f", "a", "c", "t">>,
     imageReference |-> <<"r", "e", "g", "/", "w", "e", "b", ":", "1", ".", "1", "1", ".", "0">>]

ElementImage ==
    [name |-> <<"i", "m", "a", "g", "e", "-", "e", "l", "e", "m", "e", "n", "t">>,
     type |-> <<"o", "c", "i", "I", "m", "a", "g", "e">>,
     version |-> <<"1", ".", "1", "1", ".", "0">>,
     access_type |-> <<"o", "c", "i", "A", "r", "t", "i", "f", "a", "c", "t">>,
     imageReference |-> <<"r", "e", "g", "/", "e", "l", "e", "m", "e", "n", "t", ":", "1", ".", "1", "1", ".", "0">>]

NubusImage ==
    [name |-> <<"i", "m", "a", "g", "e", "-", "k", "e", "y", "c", "l", "o", "a", "k">>,
     type |-> <<"o", "c", "i", "I", "m", "a", "g", "e">>,
     version |-> <<"2", "6", ".", "0">>,
     access_type |-> <<"o", "c", "i", "A", "r", "t", "i", "f", "a", "c", "t">>,
     imageReference |-> <<"r", "e", "g", "/", "k", "e", "y", "c", "l", "o", "a", "k", ":", "2", "6", ".", "0">>]

(***************************************************************************)
(* _update_component_constructor_file, update_component_constructors, main *)
(***************************************************************************)
\* a loader that finds a resources list in every document
LoadsAnything(lines) == [shape |-> "resources", resources |-> <<>>]

ComponentName == <<" ", " ", "-", " ", "n", "a", "m", "e", ":", " ">>

\* a text starts with the lines of a header, whatever the name of its
\* component
HasHeader(lines, header) ==
    /\ Len(lines) >= Len(header)
    /\ \A i \in 1..Len(header) :
           \/ lines[i] = header[i]
           \/ StartsWith(lines[i], ComponentName) /\ StartsWith(header[i], ComponentName)

\* yaml.safe_load(f): the shape of the document and components[0].resources
yaml_safe_load(lines) ==
    IF HasHeader(lines, ValidHeader)
    THEN LET first == Len(ValidHeader) + 1
             loaded == LoadResources(lines, first, ResourcesEnd(lines, first) - 1)
         IN  [shape |-> IF loaded = <<>> THEN "null_resources" ELSE "resources",
              resources |-> loaded]
    ELSE IF Len(lines) = Len(NoResourcesHeader) /\ HasHeader(lines, NoResourcesHeader)
    THEN [shape |-> "no_resources", resources |-> <<>>]
    ELSE IF lines = EmptyComponentsHeader THEN [shape |-> "empty_components", resources |-> <<>>]
    ELSE [shape |-> "no_components", resources |-> <<>>]

HelmChartType == <<"h", "e", "l", "m", "C", "h", "a", "r", "t">>

\* helm_charts_info: the names of the resources of type helmChart, in order
RECURSIVE HelmChartsInfo(_, _)
HelmChartsInfo(loaded, k) ==
    IF k > Len(loaded) THEN <<>>
    ELSE (IF loaded[k].type = HelmChartType
          THEN << IF loaded[k].name = None THEN <<>> ELSE loaded[k].name >>
          ELSE <<>>)
         \o HelmChartsInfo(loaded, k + 1)

\* total_images = sum(len(imgs) for imgs in images_by_chart.values())
RECURSIVE TotalImages(_)
TotalImages(images_by_chart) ==
    IF DOMAIN images_by_chart = {} THEN 0
    ELSE LET c == CHOOSE x \in DOMAIN images_by_chart : TRUE
         IN  Len(images_by_chart[c])
               + TotalImages([x \in DOMAIN images_by_chart \ {c} |-> images_by_chart[x]])

NoImages == [c \in {} |-> <<>>]
NoInsertions == [p \in {} |-> <<>>]

\* one call: what it returned, what it printed, the text after the removal
\* pass, and the text it wrote (the text it read when it wrote nothing)
Report(ok, printed, wrote, new_lines, content, total_images) ==
    [ok |-> ok, printed |-> printed, wrote |-> wrote, new_lines |-> new_lines,
     content |-> content, total_images |-> total_images]

_update_component_constructor_file(lines, image_data_list) ==
    LET data == yaml_safe_load(lines)
    IN  IF data.shape = "no_components"
        THEN Report(FALSE, "Warning: Invalid component constructor file structure",
                    FALSE, <<>>, lines, 0)
        ELSE IF data.shape = "empty_components"
        THEN Report(FALSE, "Error updating", FALSE, <<>>, lines, 0)
        ELSE IF data.shape = "no_resources"
        THEN Report(FALSE, "Warning: No resources section found", FALSE, <<>>, lines, 0)
        ELSE IF data.shape = "null_resources"
        THEN Report(FALSE, "Error updating", FALSE, <<>>, lines, 0)
        ELSE
        LET images_by_chart == ImagesByChart(image_data_list, 1, NoImages)
            helm_charts_info == HelmChartsInfo(data.resources, 1)
            new_lines == RemoveOciImages(lines, 1, <<>>)
            found == InsertionLoop(helm_charts_info, 1, images_by_chart, new_lines, NoInsertions)
            final_lines == InsertAll(found.new_lines, found.lines_to_insert)
        IN  Report(TRUE, "Updated", TRUE, new_lines, final_lines,
                   TotalImages(images_by_chart))

Item(chart_name, image_resource) ==
    [chart_name |-> chart_name, image_resource |-> image_resource]

\* the lists of items update_component_constructors hands over for the app
\* element: two images of one chart; images of two charts; an image of a
\* chart the manifests do not hold, before one they may hold; one image
ImageDataUniverse == {
    <<Item(SynapseChart, SynapseImage), Item(SynapseChart, SynapseProxyImage)>>,
    <<Item(SynapseChart, SynapseImage), Item(SynapseWebChart, SynapseWebImage)>>,
    <<Item(ElementChart, ElementImage), Item(SynapseChart, SynapseImage)>>,
    <<Item(SynapseWebChart, SynapseWebImage)>>
}

\* image_data_list of the app nubus
NubusImageData == <<Item(NubusChart, NubusImage)>>

\* Bound of the manifest: the number of lines after its header
MaxLines == 4

\* the app directories of app_images, in the order of its keys, and the
\* items of each
AppDirs == <<"element", "nubus">>

\* what may be typed at the prompt
AnswerUniverse == { <<"y">>, <<" ", "Y", "e", "s">>, <<"n">>, <<"y", "e", "a", "h">> }

\* a prompt that takes every answer for a yes
ConfirmsAnything(typed) == TRUE

\* confirm = input(...).lower().strip(); confirm in ['y', 'yes']
Confirms(typed) == Strip(Lower(typed)) \in { <<"y">>, <<"y", "e", "s">> }

nonUpdVars == <<corrVars, kroVars, exprVars, verVars, grpVars>>

\* somebody adds a piece to the manifest of the app element; after the key
\* that follows the resources list only comments and blank lines are added
AppendBlock ==
    /\ upc = "edit"
    /\ HasHeader(files.element, ValidHeader)
    /\ \E block \in BlockUniverse :
           /\ Len(files.element) + Len(block) <= Len(ValidHeader) + MaxLines
           /\ (\E i \in 1..Len(files.element) : files.element[i] = SourcesBlock[1])
                  => block \in {CommentBlock, BlankBlock}
           /\ files' = [files EXCEPT !.element = @ \o block]
           /\ files_before' = [files_before EXCEPT !.element = @ \o block]
    /\ UNCHANGED <<image_data, upc, group_idx, updated_count, reports, writes,
                   answer, outcome, run, nonUpdVars>>

\* a manifest is one that yaml loads without components[0].resources
BreakHeader ==
    /\ upc = "edit"
    /\ \E app_dir \in {"element", "nubus"} :
       \E header \in {NoComponentsHeader, EmptyComponentsHeader, NoResourcesHeader} :
           /\ files[app_dir] \in {ValidHeader, NubusManifest}
           /\ app_dir = "nubus" => header = NoResourcesHeader
           /\ files' = [files EXCEPT ![app_dir] = header]
           /\ files_before' = [files_before EXCEPT ![app_dir] = header]
    /\ UNCHANGED <<image_data, upc, group_idx, updated_count, reports, writes,
                   answer, outcome, run, nonUpdVars>>

\* the scan and the exchange table give the images of the app element; the
\* command is started
Start ==
    /\ upc = "edit"
    /\ \E image_data_list \in ImageDataUniverse : image_data' = image_data_list
    /\ upc' = "main"
    /\ UNCHANGED <<files, files_before, group_idx, updated_count, reports, writes,
                   answer, outcome, run, nonUpdVars>>

\* main: the scan file or the csv file does not exist, sys.exit(1)
MainMissingInput ==
    /\ upc = "main"
    /\ upc' = "exit"
    /\ outcome' = "missing_input"
    /\ UNCHANGED <<files, files_before, image_data, group_idx, updated_count,
                   reports, writes, answer, run, nonUpdVars>>

\* main with --dry-run: print_analysis only
MainDryRun ==
    /\ upc = "main"
    /\ upc' = "exit"
    /\ outcome' = "dry_run"
    /\ UNCHANGED <<files, files_before, image_data, group_idx, updated_count,
                   reports, writes, answer, run, nonUpdVars>>

\* main without --dry-run: input(...) waits
MainPrompt ==
    /\ upc = "main"
    /\ upc' = "prompt"
    /\ UNCHANGED <<files, files_before, image_data, group_idx, updated_count,
                   reports, writes, answer, outcome, run, nonUpdVars>>

\* the prompt is answered: Cancelled and sys.exit(0), or on to
\* update_component_constructors
Answer ==
    /\ upc = "prompt"
    /\ \E typed \in AnswerUniverse :
           /\ answer' = typed
           /\ IF Confirms(typed)
              THEN upc' = "update" /\ outcome' = outcome
              ELSE upc' = "exit" /\ outcome' = "cancelled"
    /\ UNCHANGED <<files, files_before, image_data, group_idx, updated_count,
                   reports, writes, run, nonUpdVars>>

\* KeyboardInterrupt at the prompt: Cancelled and sys.exit(0)
Interrupt ==
    /\ upc = "prompt"
    /\ upc' = "exit"
    /\ outcome' = "interrupted"
    /\ UNCHANGED <<files, files_before, image_data, group_idx, updated_count,
                   reports, writes, answer, run, nonUpdVars>>

\* one round of "for app_dir, image_data in app_images.items()"
UpdateGroup ==
    /\ upc = "update"
    /\ group_idx <= Len(AppDirs)
    /\ LET app_dir == AppDirs[group_idx]
           image_data_list == IF app_dir = "element" THEN image_data ELSE NubusImageData
       IN  \E done \in {_update_component_constructor_file(files[app_dir], image_data_list)} :
           /\ files' = IF done.wrote THEN [files EXCEPT ![app_dir] = done.content] ELSE files
           /\ writes' = IF done.wrote THEN writes \cup {app_dir} ELSE writes
           /\ updated_count' = IF done.ok THEN updated_count + 1 ELSE updated_count
           /\ reports' = Append(reports,
                  [run |-> run, app_dir |-> app_dir, lines |-> files[app_dir],
                   image_data_list |-> image_data_list, done |-> done])
    /\ group_idx' = group_idx + 1
    /\ UNCHANGED <<files_before, image_data, upc, answer, outcome, run, nonUpdVars>>

\* return updated_count > 0, and main's exit code
Finish ==
    /\ upc = "update"
    /\ group_idx > Len(AppDirs)
    /\ upc' = "exit"
    /\ outcome' = IF updated_count > 0 THEN "updated" ELSE "failed"
    /\ UNCHANGED <<files, files_before, image_data, group_idx, updated_count,
                   reports, writes, answer, run, nonUpdVars>>

\* the command is started once more, with the same scan and exchange table,
\* on the manifests the first run left
RunAgain ==
    /\ upc = "exit"
    /\ run = 1
    /\ outcome \in {"updated", "failed"}
    /\ run' = 2
    /\ upc' = "main"
    /\ files_before' = files
    /\ group_idx' = 1
    /\ updated_count' = 0
    /\ writes' = {}
    /\ answer' = None
    /\ outcome' = "running"
    /\ UNCHANGED <<files, image_data, reports, nonUpdVars>>

UpdNext ==
    \/ AppendBlock
    \/ BreakHeader
    \/ Start
    \/ MainMissingInput
    \/ MainDryRun
    \/ MainPrompt
    \/ Answer
    \/ Interrupt
    \/ UpdateGroup
    \/ Finish
    \/ RunAgain
(***************************************************************************)
(* Claims about the manifest patcher and the update command                *)
(***************************************************************************)
\* n spaces
Spaces(n) == [k \in 1..n |-> " "]

\* the calls of _update_component_constructor_file made so far
Calls == 1..Len(reports)

\* the first line of the six lines emitted for an image resource
NameLine(resource) == ImageYamlLines(resource)[1]

\* how often a line occurs in a text
Occurrences(lines, line) == Cardinality({i \in 1..Len(lines) : lines[i] = line})

\* call c2 of the second run patched what call c1 of the first run wrote,
\* with the same items
Repatches(c1, c2) ==
    /\ reports[c1].run = 1
    /\ reports[c2].run = 2
    /\ reports[c1].app_dir = reports[c2].app_dir
    /\ reports[c1].done.wrote
    /\ reports[c2].done.wrote
    /\ reports[c2].lines = reports[c1].done.content
    /\ reports[c2].image_data_list = reports[c1].image_data_list

\* C12: patching is idempotent.  When a manifest written by one patch is
\* patched again with the same items, the second patch writes the very
\* text it read, and no emitted name line occurs more often than before.
C12_PatchingTwiceEqualsPatchingOnce ==
    \A c1 \in Calls : \A c2 \in Calls :
        Repatches(c1, c2) =>
            /\ reports[c2].done.content = reports[c1].done.content
            /\ \A k \in 1..Len(reports[c1].image_data_list) :
                   LET line == NameLine(reports[c1].image_data_list[k].image_resource)
                   IN  Occurrences(reports[c2].done.content, line)
                           = Occurrences(reports[c1].done.content, line)

\* the entries of components[0].resources a text holds, as the loader
\* reads them
Entries(lines) ==
    LoadResources(lines, Len(ValidHeader) + 1,
                  ResourcesEnd(lines, Len(ValidHeader) + 1) - 1)

OciImageType == <<"o", "c", "i", "I", "m", "a", "g", "e">>

\* C13: the removal pass removes the resource blocks of type ociImage and
\* no other.  Whenever the patcher got as far as the removal pass, the
\* entries of the cleaned text are the entries of the text read whose type
\* is not ociImage, in order.
C13_RemovalPassRemovesExactlyOciImages ==
    \A c \in Calls :
        reports[c].done.wrote =>
            Entries(reports[c].done.new_lines)
                = SelectSeq(Entries(reports[c].lines), LAMBDA e : e.type # OciImageType)

\* the six lines the contract gives one image record: name, type, quoted
\* version, access, access.type, unquoted access.imageReference
SixLines(record) ==
    << Spaces(6) \o <<"-", " ", "n", "a", "m", "e", ":", " ">> \o record.name \o NewLine,
       Spaces(8) \o <<"t", "y", "p", "e", ":", " ">> \o record.type \o NewLine,
       Spaces(8) \o <<"v", "e", "r", "s", "i", "o", "n", ":", " ", "\"">> \o record.version \o <<"\"">> \o NewLine,
       Spaces(8) \o <<"a", "c", "c", "e", "s", "s", ":">> \o NewLine,
       Spaces(10) \o <<"t", "y", "p", "e", ":", " ">> \o record.access_type \o NewLine,
       Spaces(10) \o <<"i", "m", "a", "g", "e", "R", "e", "f", "e", "r", "e", "n", "c", "e", ":", " ">> \o record.imageReference \o NewLine >>

\* the lines of the records of a chart among the items, in item order
RECURSIVE LinesOfChart(_, _, _)
LinesOfChart(image_data_list, k, chart_name) ==
    IF k > Len(image_data_list) THEN <<>>
    ELSE (IF image_data_list[k].chart_name = chart_name
          THEN SixLines(image_data_list[k].image_resource) ELSE <<>>)
         \o LinesOfChart(image_data_list, k + 1, chart_name)

\* the charts the items name
ChartsOf(image_data_list) ==
    {image_data_list[k].chart_name : k \in 1..Len(image_data_list)}

\* line i of a text starts a helmChart entry with the name of the chart
IsAnchorAt(lines, i, chart_name) ==
    /\ i < ResourcesEnd(lines, Len(ValidHeader) + 1)
    /\ IsEntryStart(lines[i])
    /\ EntryValue(lines, i, i, Len(lines), NameColon) = chart_name
    /\ EntryValue(lines, i, i, Len(lines), TypeColon) = HelmChartType

\* the anchors of a chart in a text: the first lines of its blocks
Anchors(lines, chart_name) ==
    {i \in Len(ValidHeader) + 1..Len(lines) : IsAnchorAt(lines, i, chart_name)}

\* the line that follows the block starting at line a: the next sibling
\* block or dedented line, Len(lines) + 1 when the block is the last
BlockEnd(lines, a) ==
    Min({j \in a + 1..Len(lines) :
            \/ IsEntryStart(lines[j])
            \/ /\ Indent(lines[j]) < ResourcesIndent
               /\ Strip(lines[j]) # <<>>
               /\ ~StartsWith(Strip(lines[j]), Hash)}
        \cup {Len(lines) + 1})

\* in the text written, the emitted lines stand directly after the block
\* that is lines a..e-1 of the cleaned text, and directly before line e
PlacedAfter(content, cleaned, a, e, emitted) ==
    \E p \in 1..Len(content) :
        /\ p >= e - a
        /\ SubSeq(content, p - (e - a) + 1, p) = SubSeq(cleaned, a, e - 1)
        /\ p + Len(emitted) <= Len(content)
        /\ SubSeq(content, p + 1, p + Len(emitted)) = emitted
        /\ IF e > Len(cleaned) THEN p + Len(emitted) = Len(content)
           ELSE /\ p + Len(emitted) < Len(content)
                /\ content[p + Len(emitted) + 1] = cleaned[e]

\* C14: the records of an anchor are emitted as six lines each, in input
\* order, directly after the end of the anchor block: before the next
\* sibling block or dedented line, or at the end of the text.  Stated for
\* the first block of the chart when the text holds several.
C14_RecordsFollowTheirAnchorBlock ==
    \A c \in Calls :
        reports[c].done.wrote =>
            \A chart_name \in ChartsOf(reports[c].image_data_list) :
                LET cleaned == reports[c].done.new_lines
                    found == Anchors(cleaned, chart_name)
                IN  found # {} =>
                        PlacedAfter(reports[c].done.content, cleaned,
                                    Min(found), BlockEnd(cleaned, Min(found)),
                                    LinesOfChart(reports[c].image_data_list, 1, chart_name))


\* the charts of the items that have an anchor in a text
Anchored(lines, image_data_list) ==
    {chart_name \in ChartsOf(image_data_list) : Anchors(lines, chart_name) # {}}

\* every line of a list occurs in a text
EachOccurs(content, emitted) ==
    \A k \in 1..Len(emitted) :
        emitted[k] \in {emitted[m] : m \in 1..k - 1} \/ Occurrences(content, emitted[k]) >= 1

\* C15: when several charts of the items have an anchor in one manifest,
\* the text written holds the lines of the records of every one of them,
\* each group directly after the block of its own chart.
C15_EveryAnchorKeepsItsRecords ==
    \A c \in Calls :
        reports[c].done.wrote =>
            LET cleaned == reports[c].done.new_lines
                anchored == Anchored(cleaned, reports[c].image_data_list)
            IN  Cardinality(anchored) >= 2 =>
                    \A chart_name \in anchored :
                        LET emitted == LinesOfChart(reports[c].image_data_list, 1, chart_name)
                        IN  /\ EachOccurs(reports[c].done.content, emitted)
                            /\ PlacedAfter(reports[c].done.content, cleaned,
                                   Min(Anchors(cleaned, chart_name)),
                                   BlockEnd(cleaned, Min(Anchors(cleaned, chart_name))),
                                   emitted)

\* the first lines of the blocks of type ociImage in a text
OciImageStarts(lines) ==
    {i \in Len(ValidHeader) + 1..Len(lines) :
        /\ i < ResourcesEnd(lines, Len(ValidHeader) + 1)
        /\ IsEntryStart(lines[i])
        /\ EntryValue(lines, i, i, Len(lines), TypeColon) = OciImageType}

\* line i lies in a block of type ociImage: between its first line and the
\* next sibling block or dedented line
InOciImageBlock(lines, i) ==
    \E a \in OciImageStarts(lines) : a <= i /\ i < BlockEnd(lines, a)

\* the lines of a text outside its blocks of type ociImage, in order
Untouched(lines) ==
    LET at == SelectSeq([i \in 1..Len(lines) |-> i], LAMBDA i : ~InOciImageBlock(lines, i))
    IN  [k \in 1..Len(at) |-> lines[at[k]]]

\* the lines kept[k..] occur in content[i..] in their order
RECURSIVE Embeds(_, _, _, _)
Embeds(content, i, kept, k) ==
    IF k > Len(kept) THEN TRUE
    ELSE IF i > Len(content) THEN FALSE
    ELSE IF content[i] = kept[k] THEN Embeds(content, i + 1, kept, k + 1)
    ELSE Embeds(content, i + 1, kept, k)

\* all the lines the items can be emitted as
EmittedLines(image_data_list) ==
    UNION {{SixLines(image_data_list[k].image_resource)[m] : m \in 1..6} :
              k \in 1..Len(image_data_list)}

\* C16: untouched lines are written back verbatim.  The lines of the text
\* read that lie outside every block of type ociImage occur in the text
\* written, unchanged and in their order, and every line of the text
\* written is a line of the text read or a line emitted for a record.
C16_UntouchedLinesAreVerbatim ==
    \A c \in Calls :
        reports[c].done.wrote =>
            /\ Embeds(reports[c].done.content, 1, Untouched(reports[c].lines), 1)
            /\ \A i \in 1..Len(reports[c].done.content) :
                   \/ reports[c].done.content[i] \in EmittedLines(reports[c].image_data_list)
                   \/ \E j \in 1..Len(reports[c].lines) :
                          reports[c].lines[j] = reports[c].done.content[i]

\* the messages of _update_component_constructor_file that are warnings
Warnings == {"Warning: Invalid component constructor file structure",
             "Warning: No resources section found"}

\* C17: records without an anchor are dropped with a warning, and nothing
\* fails.  When the manifest read holds no anchor for a chart of the items,
\* no line of that chart's records is written, the call prints a warning,
\* the lines of the charts that have an anchor are written, the call
\* returns True and its run does not end as failed.
C17_MissingAnchorDropsRecordsWithWarning ==
    \A c \in Calls :
        reports[c].done.wrote =>
            \A chart_name \in ChartsOf(reports[c].image_data_list) :
                Anchors(reports[c].lines, chart_name) = {} =>
                    /\ \A k \in 1..Len(reports[c].image_data_list) :
                           reports[c].image_data_list[k].chart_name = chart_name =>
                               Occurrences(reports[c].done.content,
                                   NameLine(reports[c].image_data_list[k].image_resource)) = 0
                    /\ reports[c].done.printed \in Warnings
                    /\ \A other \in Anchored(reports[c].lines, reports[c].image_data_list) :
                           EachOccurs(reports[c].done.content,
                               LinesOfChart(reports[c].image_data_list, 1, other))
                    /\ reports[c].done.ok
                    /\ reports[c].run = run => outcome # "failed"

\* a manifest without components[0].resources: no key components, an empty
\* components list, no key resources, or a resources key without entries
StructurallyInvalid(lines) ==
    \/ lines \in {NoComponentsHeader, EmptyComponentsHeader, NoResourcesHeader}
    \/ /\ HasHeader(lines, ValidHeader)
       /\ \A i \in Len(ValidHeader) + 1..Len(lines) :
              ~StartsWith(lines[i], Spaces(ResourcesIndent) \o DashSpace)

\* the loop over app_images of this run has ended
LoopEnded == upc = "exit" /\ outcome \in {"updated", "failed"}

\* C18: a structurally invalid manifest fails alone.  The call on it
\* returns False, writes nothing and the file keeps its content; and when
\* the loop over the groups has ended, every group has been handled in
\* this run, whatever the calls before it returned.
C18_InvalidManifestFailsAlone ==
    /\ \A c \in Calls :
           StructurallyInvalid(reports[c].lines) =>
               /\ ~reports[c].done.ok
               /\ ~reports[c].done.wrote
               /\ reports[c].done.content = reports[c].lines
               /\ files[reports[c].app_dir] = reports[c].lines
               /\ reports[c].app_dir \notin writes
    /\ LoopEnded =>
           \A k \in 1..Len(AppDirs) :
               \E c \in Calls : reports[c].run = run /\ reports[c].app_dir = AppDirs[k]

\* the manifest of the first group had no key components: its call failed,
\* the manifest of the second group was patched after it, and the run
\* ended as updated
C18_Witness ==
    /\ LoopEnded
    /\ outcome = "updated"
    /\ \E c1 \in Calls : \E c2 \in Calls :
           /\ c1 < c2
           /\ reports[c1].run = run
           /\ reports[c2].run = run
           /\ reports[c1].lines = NoComponentsHeader
           /\ ~reports[c1].done.ok
           /\ reports[c2].app_dir = "nubus"
           /\ reports[c2].done.wrote

\* the prompt of this run was answered y or yes, in any case and with
\* blanks around it
AnsweredYes ==
    /\ answer # None
    /\ Strip(Lower(answer)) \in { <<"y">>, <<"y", "e", "s">> }

\* C19: no manifest is written without a yes.  In every run, while a
\* manifest has been written or differs from what it was when the run
\* started, the prompt of this run has been answered y or yes; and a run
\* that ended for a missing input file, as a dry run, with another answer
\* or with an interrupt has written no manifest.
C19_NoWriteWithoutConfirmation ==
    /\ (writes # {} \/ files # files_before) =>
           AnsweredYes /\ upc \in {"update", "exit"}
    /\ outcome \in {"missing_input", "dry_run", "cancelled", "interrupted"} =>
           writes = {} /\ files = files_before

\* a first run, answered yes, patched a manifest; the second run was
\* answered yeah and ended as cancelled, leaving the manifests alone
C19_Witness ==
    /\ run = 2
    /\ outcome = "cancelled"
    /\ answer = <<"y", "e", "a", "h">>
    /\ files = files_before
    /\ \E c \in Calls :
           /\ reports[c].run = 1
           /\ reports[c].done.wrote
           /\ reports[c].done.content # reports[c].lines
(***************************************************************************)
(* update_component_constructors: the grouping of the correlated images    *)
(* by app directory, the image resource built for each, and the update of  *)
(* the manifest of the app nubus with the images of its group              *)
(***************************************************************************)
\* component_mapping of _map_component_to_app_directory: (key, value)
component_mapping == {
    \* 'opendesk-services': 'opendesk-services'
    <<<<"o", "p", "e", "n", "d", "e", "s", "k", "-", "s", "e", "r", "v", "i", "c", "e", "s">>,
      <<"o", "p", "e", "n", "d", "e", "s", "k", "-", "s", "e", "r", "v", "i", "c", "e", "s">>>>,
    \* 'services-external': 'services-external'
    <<<<"s", "e", "r", "v", "i", "c", "e", "s", "-", "e", "x", "t", "e", "r", "n", "a", "l">>,
      <<"s", "e", "r", "v", "i", "c", "e", "s", "-", "e", "x", "t", "e", "r", "n", "a", "l">>>>,
    \* 'nubus': 'nubus'
    <<<<"n", "u", "b", "u", "s">>,
      <<"n", "u", "b", "u", "s">>>>,
    \* 'open-xchange': 'open-xchange'
    <<<<"o", "p", "e", "n", "-", "x", "c", "h", "a", "n", "g", "e">>,
      <<"o", "p", "e", "n", "-", "x", "c", "h", "a", "n", "g", "e">>>>,
    \* 'nextcloud': 'nextcloud'
    <<<<"n", "e", "x", "t", "c", "l", "o", "u", "d">>,
      <<"n", "e", "x", "t", "c", "l", "o", "u", "d">>>>,
    \* 'element': 'element'
    <<<<"e", "l", "e", "m", "e", "n", "t">>,
      <<"e", "l", "e", "m", "e", "n", "t">>>>,
    \* 'collabora': 'collabora'
    <<<<"c", "o", "l", "l", "a", "b", "o", "r", "a">>,
      <<"c", "o", "l", "l", "a", "b", "o", "r", "a">>>>,
    \* 'cryptpad': 'cryptpad'
    <<<<"c", "r", "y", "p", "t", "p", "a", "d">>,
      <<"c", "r", "y", "p", "t", "p", "a", "d">>>>,
    \* 'jitsi': 'jitsi'
    <<<<"j", "i", "t", "s", "i">>,
      <<"j", "i", "t", "s", "i">>>>,
    \* 'openproject': 'openproject'
    <<<<"o", "p", "e", "n", "p", "r", "o", "j", "e", "c", "t">>,
      <<"o", "p", "e", "n", "p", "r", "o", "j", "e", "c", "t">>>>,
    \* 'opendesk-openproject-bootstrap': 'opendesk-openproject-bootstrap'
    <<<<"o", "p", "e", "n", "d", "e", "s", "k", "-", "o", "p", "e", "n", "p", "r", "o", "j", "e", "c", "t", "-", "b", "o", "o", "t", "s", "t", "r", "a", "p">>,
      <<"o", "p", "e", "n", "d", "e", "s", "k", "-", "o", "p", "e", "n", "p", "r", "o", "j", "e", "c", "t", "-", "b", "o", "o", "t", "s", "t", "r", "a", "p">>>>,
    \* 'xwiki': 'xwiki'
    <<<<"x", "w", "i", "k", "i">>,
      <<"x", "w", "i", "k", "i">>>>
}

\* chart_to_app of _find_app_directory_for_chart: (key, value)
chart_to_app == {
    \* 'helm-chart-opendesk-jitsi': 'jitsi'
    <<<<"h", "e", "l", "m", "-", "c", "h", "a", "r", "t", "-", "o", "p", "e", "n", "d", "e", "s", "k", "-", "j", "i", "t", "s", "i">>,
      <<"j", "i", "t", "s", "i">>>>,
    \* 'helm-chart-collabora-online': 'collabora'
    <<<<"h", "e", "l", "m", "-", "c", "h", "a", "r", "t", "-", "c", "o", "l", "l", "a", "b", "o", "r", "a", "-", "o", "n", "l", "i", "n", "e">>,
      <<"c", "o", "l", "l", "a", "b", "o", "r", "a">>>>,
    \* 'helm-chart-cryptpad': 'cryptpad'
    <<<<"h", "e", "l", "m", "-", "c", "h", "a", "r", "t", "-", "c", "r", "y", "p", "t", "p", "a", "d">>,
      <<"c", "r", "y", "p", "t", "p", "a", "d">>>>,
    \* 'helm-chart-opendesk-element': 'element'
    <<<<"h", "e", "l", "m", "-", "c", "h", "a", "r", "t", "-", "o", "p", "e", "n", "d", "e", "s", "k", "-", "e", "l", "e", "m", "e", "n", "t">>,
      <<"e", "l", "e", "m", "e", "n", "t">>>>,
    \* 'helm-chart-opendesk-synapse': 'element'
    <<<<"h", "e", "l", "m", "-", "c", "h", "a", "r", "t", "-", "o", "p", "e", "n", "d", "e", "s", "k", "-", "s", "y", "n", "a", "p", "s", "e">>,
      <<"e", "l", "e", "m", "e", "n", "t">>>>,
    \* 'helm-chart-opendesk-synapse-web': 'element'
    <<<<"h", "e", "l", "m", "-", "c", "h", "a", "r", "t", "-", "o", "p", "e", "n", "d", "e", "s", "k", "-", "s", "y", "n", "a", "p", "s", "e", "-", "w", "e", "b">>,
      <<"e", "l", "e", "m", "e", "n", "t">>>>,
    \* 'helm-chart-opendesk-well-known': 'element'
    <<<<"h", "e", "l", "m", "-", "c", "h", "a", "r", "t", "-", "o", "p", "e", "n", "d", "e", "s", "k", "-", "w", "e", "l", "l", "-", "k", "n", "o", "w", "n">>,
      <<"e", "l", "e", "m", "e", "n", "t">>>>,
    \* 'helm-chart-matrix-neoboard-widget': 'element'
    <<<<"h", "e", "l", "m", "-", "c", "h", "a", "r", "t", "-", "m", "a", "t", "r", "i", "x", "-", "n", "e", "o", "b", "o", "a", "r", "d", "-", "w", "i", "d", "g", "e", "t">>,
      <<"e", "l", "e", "m", "e", "n", "t">>>>,
    \* 'helm-chart-matrix-neochoice-widget': 'element'
    <<<<"h", "e", "l", "m", "-", "c", "h", "a", "r", "t", "-", "m", "a", "t", "r", "i", "x", "-", "n", "e", "o", "c", "h", "o", "i", "c", "e", "-", "w", "i", "d", "g", "e", "t">>,
      <<"e", "l", "e", "m", "e", "n", "t">>>>,
    \* 'helm-chart-matrix-neodatefix-widget': 'element'
    <<<<"h", "e", "l", "m", "-", "c", "h", "a", "r", "t", "-", "m", "a", "t", "r", "i", "x", "-", "n", "e", "o", "d", "a", "t", "e", "f", "i", "x", "-", "w", "i", "d", "g", "e", "t">>,
      <<"e", "l", "e", "m", "e", "n", "t">>>>,
    \* 'helm-chart-matrix-neodatefix-bot': 'element'
    <<<<"h", "e", "l", "m", "-", "c", "h", "a", "r", "t", "-", "m", "a", "t", "r", "i", "x", "-", "n", "e", "o", "d", "a", "t", "e", "f", "i", "x", "-", "b", "o", "t">>,
      <<"e", "l", "e", "m", "e", "n", "t">>>>,
    \* 'helm-chart-opendesk-matrix-user-verification-service': 'element'
    <<<<"h", "e", "l", "m", "-", "c", "h", "a", "r", "t", "-", "o", "p", "e", "n", "d", "e", "s", "k", "-", "m", "a", "t", "r", "i", "x", "-", "u", "s", "e", "r", "-", "v", "e", "r", "i", "f", "i", "c", "a", "t", "i", "o", "n", "-", "s", "e", "r", "v", "i", "c", "e">>,
      <<"e", "l", "e", "m", "e", "n", "t">>>>,
    \* 'helm-chart-opendesk-nextcloud': 'nextcloud'
    <<<<"h", "e", "l", "m", "-", "c", "h", "a", "r", "t", "-", "o", "p", "e", "n", "d", "e", "s", "k", "-", "n", "e", "x", "t", "c", "l", "o", "u", "d">>,
      <<"n", "e", "x", "t", "c", "l", "o", "u", "d">>>>,
    \* 'helm-chart-opendesk-nextcloud-management': 'nextcloud'
    <<<<"h", "e", "l", "m", "-", "c", "h", "a", "r", "t", "-", "o", "p", "e", "n", "d", "e", "s", "k", "-", "n", "e", "x", "t", "c", "l", "o", "u", "d", "-", "m", "a", "n", "a", "g", "e", "m", "e", "n", "t">>,
      <<"n", "e", "x", "t", "c", "l", "o", "u", "d">>>>,
    \* 'helm-chart-openproject': 'openproject'
    <<<<"h", "e", "l", "m", "-", "c", "h", "a", "r", "t", "-", "o", "p", "e", "n", "p", "r", "o", "j", "e", "c", "t">>,
      <<"o", "p", "e", "n", "p", "r", "o", "j", "e", "c", "t">>>>,
    \* 'helm-chart-opendesk-openproject-bootstrap': 'opendesk-openproject-bootstrap'
    <<<<"h", "e", "l", "m", "-", "c", "h", "a", "r", "t", "-", "o", "p", "e", "n", "d", "e", "s", "k", "-", "o", "p", "e", "n", "p", "r", "o", "j", "e", "c", "t", "-", "b", "o", "o", "t", "s", "t", "r", "a", "p">>,
      <<"o", "p", "e", "n", "d", "e", "s", "k", "-", "o", "p", "e", "n", "p", "r", "o", "j", "e", "c", "t", "-", "b", "o", "o", "t", "s", "t", "r", "a", "p">>>>,
    \* 'helm-chart-xwiki': 'xwiki'
    <<<<"h", "e", "l", "m", "-", "c", "h", "a", "r", "t", "-", "x", "w", "i", "k", "i">>,
      <<"x", "w", "i", "k", "i">>>>,
    \* 'helm-chart-nubus': 'nubus'
    <<<<"h", "e", "l", "m", "-", "c", "h", "a", "r", "t", "-", "n", "u", "b", "u", "s">>,
      <<"n", "u", "b", "u", "s">>>>,
    \* 'helm-chart-intercom-service': 'nubus'
    <<<<"h", "e", "l", "m", "-", "c", "h", "a", "r", "t", "-", "i", "n", "t", "e", "r", "c", "o", "m", "-", "s", "e", "r", "v", "i", "c", "e">>,
      <<"n", "u", "b", "u", "s">>>>,
    \* 'helm-chart-nginx-s3-gateway': 'nubus'
    <<<<"h", "e", "l", "m", "-", "c", "h", "a", "r", "t", "-", "n", "g", "i", "n", "x", "-", "s", "3", "-", "g", "a", "t", "e", "w", "a", "y">>,
      <<"n", "u", "b", "u", "s">>>>,
    \* 'helm-chart-opendesk-keycloak-bootstrap': 'nubus'
    <<<<"h", "e", "l", "m", "-", "c", "h", "a", "r", "t", "-", "o", "p", "e", "n", "d", "e", "s", "k", "-", "k", "e", "y", "c", "l", "o", "a", "k", "-", "b", "o", "o", "t", "s", "t", "r", "a", "p">>,
      <<"n", "u", "b", "u", "s">>>>,
    \* 'helm-chart-dovecot': 'open-xchange'
    <<<<"h", "e", "l", "m", "-", "c", "h", "a", "r", "t", "-", "d", "o", "v", "e", "c", "o", "t">>,
      <<"o", "p", "e", "n", "-", "x", "c", "h", "a", "n", "g", "e">>>>,
    \* 'helm-chart-opendesk-open-xchange-bootstrap': 'open-xchange'
    <<<<"h", "e", "l", "m", "-", "c", "h", "a", "r", "t", "-", "o", "p", "e", "n", "d", "e", "s", "k", "-", "o", "p", "e", "n", "-", "x", "c", "h", "a", "n", "g", "e", "-", "b", "o", "o", "t", "s", "t", "r", "a", "p">>,
      <<"o", "p", "e", "n", "-", "x", "c", "h", "a", "n", "g", "e">>>>,
    \* 'helm-chart-appsuite-public-sector': 'open-xchange'
    <<<<"h", "e", "l", "m", "-", "c", "h", "a", "r", "t", "-", "a", "p", "p", "s", "u", "i", "t", "e", "-", "p", "u", "b", "l", "i", "c", "-", "s", "e", "c", "t", "o", "r">>,
      <<"o", "p", "e", "n", "-", "x", "c", "h", "a", "n", "g", "e">>>>,
    \* 'helm-chart-ox-connector': 'open-xchange'
    <<<<"h", "e", "l", "m", "-", "c", "h", "a", "r", "t", "-", "o", "x", "-", "c", "o", "n", "n", "e", "c", "t", "o", "r">>,
      <<"o", "p", "e", "n", "-", "x", "c", "h", "a", "n", "g", "e">>>>,
    \* 'helm-chart-home': 'opendesk-services'
    <<<<"h", "e", "l", "m", "-", "c", "h", "a", "r", "t", "-", "h", "o", "m", "e">>,
      <<"o", "p", "e", "n", "d", "e", "s", "k", "-", "s", "e", "r", "v", "i", "c", "e", "s">>>>,
    \* 'helm-chart-certificates': 'opendesk-services'
    <<<<"h", "e", "l", "m", "-", "c", "h", "a", "r", "t", "-", "c", "e", "r", "t", "i", "f", "i", "c", "a", "t", "e", "s">>,
      <<"o", "p", "e", "n", "d", "e", "s", "k", "-", "s", "e", "r", "v", "i", "c", "e", "s">>>>,
    \* 'helm-chart-static-files': 'opendesk-services'
    <<<<"h", "e", "l", "m", "-", "c", "h", "a", "r", "t", "-", "s", "t", "a", "t", "i", "c", "-", "f", "i", "l", "e", "s">>,
      <<"o", "p", "e", "n", "d", "e", "s", "k", "-", "s", "e", "r", "v", "i", "c", "e", "s">>>>,
    \* 'helm-chart-redis': 'services-external'
    <<<<"h", "e", "l", "m", "-", "c", "h", "a", "r", "t", "-", "r", "e", "d", "i", "s">>,
      <<"s", "e", "r", "v", "i", "c", "e", "s", "-", "e", "x", "t", "e", "r", "n", "a", "l">>>>,
    \* 'helm-chart-memcached': 'services-external'
    <<<<"h", "e", "l", "m", "-", "c", "h", "a", "r", "t", "-", "m", "e", "m", "c", "a", "c", "h", "e", "d">>,
      <<"s", "e", "r", "v", "i", "c", "e", "s", "-", "e", "x", "t", "e", "r", "n", "a", "l">>>>,
    \* 'helm-chart-postgresql': 'services-external'
    <<<<"h", "e", "l", "m", "-", "c", "h", "a", "r", "t", "-", "p", "o", "s", "t", "g", "r", "e", "s", "q", "l">>,
      <<"s", "e", "r", "v", "i", "c", "e", "s", "-", "e", "x", "t", "e", "r", "n", "a", "l">>>>,
    \* 'helm-chart-mariadb': 'services-external'
    <<<<"h", "e", "l", "m", "-", "c", "h", "a", "r", "t", "-", "m", "a", "r", "i", "a", "d", "b">>,
      <<"s", "e", "r", "v", "i", "c", "e", "s", "-", "e", "x", "t", "e", "r", "n", "a", "l">>>>,
    \* 'helm-chart-postfix': 'services-external'
    <<<<"h", "e", "l", "m", "-", "c", "h", "a", "r", "t", "-", "p", "o", "s", "t", "f", "i", "x">>,
      <<"s", "e", "r", "v", "i", "c", "e", "s", "-", "e", "x", "t", "e", "r", "n", "a", "l">>>>,
    \* 'helm-chart-clamav': 'services-external'
    <<<<"h", "e", "l", "m", "-", "c", "h", "a", "r", "t", "-", "c", "l", "a", "m", "a", "v">>,
      <<"s", "e", "r", "v", "i", "c", "e", "s", "-", "e", "x", "t", "e", "r", "n", "a", "l">>>>,
    \* 'helm-chart-minio': 'services-external'
    <<<<"h", "e", "l", "m", "-", "c", "h", "a", "r", "t", "-", "m", "i", "n", "i", "o">>,
      <<"s", "e", "r", "v", "i", "c", "e", "s", "-", "e", "x", "t", "e", "r", "n", "a", "l">>>>
}

\* chart_name_mappings of _match_image_to_helm_chart, in the order of its items
chart_name_mappings == <<
    \* 'mariadb': 'helm-chart-mariadb'
    <<<<"m", "a", "r", "i", "a", "d", "b">>,
      <<"h", "e", "l", "m", "-", "c", "h", "a", "r", "t", "-", "m", "a", "r", "i", "a", "d", "b">>>>,
    \* 'postgresql': 'helm-chart-postgresql'
    <<<<"p", "o", "s", "t", "g", "r", "e", "s", "q", "l">>,
      <<"h", "e", "l", "m", "-", "c", "h", "a", "r", "t", "-", "p", "o", "s", "t", "g", "r", "e", "s", "q", "l">>>>,
    \* 'redis': 'helm-chart-redis'
    <<<<"r", "e", "d", "i", "s">>,
      <<"h", "e", "l", "m", "-", "c", "h", "a", "r", "t", "-", "r", "e", "d", "i", "s">>>>,
    \* 'memcached': 'helm-chart-memcached'
    <<<<"m", "e", "m", "c", "a", "c", "h", "e", "d">>,
      <<"h", "e", "l", "m", "-", "c", "h", "a", "r", "t", "-", "m", "e", "m", "c", "a", "c", "h", "e", "d">>>>,
    \* 'postfix': 'helm-chart-postfix'
    <<<<"p", "o", "s", "t", "f", "i", "x">>,
      <<"h", "e", "l", "m", "-", "c", "h", "a", "r", "t", "-", "p", "o", "s", "t", "f", "i", "x">>>>,
    \* 'clamav': 'helm-chart-clamav'
    <<<<"c", "l", "a", "m", "a", "v">>,
      <<"h", "e", "l", "m", "-", "c", "h", "a", "r", "t", "-", "c", "l", "a", "m", "a", "v">>>>,
    \* 'minio': 'helm-chart-minio'
    <<<<"m", "i", "n", "i", "o">>,
      <<"h", "e", "l", "m", "-", "c", "h", "a", "r", "t", "-", "m", "i", "n", "i", "o">>>>,
    \* 'collabora-online': 'helm-chart-collabora-online'
    <<<<"c", "o", "l", "l", "a", "b", "o", "r", "a", "-", "o", "n", "l", "i", "n", "e">>,
      <<"h", "e", "l", "m", "-", "c", "h", "a", "r", "t", "-", "c", "o", "l", "l", "a", "b", "o", "r", "a", "-", "o", "n", "l", "i", "n", "e">>>>,
    \* 'jitsi': 'helm-chart-opendesk-jitsi'
    <<<<"j", "i", "t", "s", "i">>,
      <<"h", "e", "l", "m", "-", "c", "h", "a", "r", "t", "-", "o", "p", "e", "n", "d", "e", "s", "k", "-", "j", "i", "t", "s", "i">>>>,
    \* 'cryptpad': 'helm-chart-cryptpad'
    <<<<"c", "r", "y", "p", "t", "p", "a", "d">>,
      <<"h", "e", "l", "m", "-", "c", "h", "a", "r", "t", "-", "c", "r", "y", "p", "t", "p", "a", "d">>>>,
    \* 'element': 'helm-chart-opendesk-element'
    <<<<"e", "l", "e", "m", "e", "n", "t">>,
      <<"h", "e", "l", "m", "-", "c", "h", "a", "r", "t", "-", "o", "p", "e", "n", "d", "e", "s", "k", "-", "e", "l", "e", "m", "e", "n", "t">>>>,
    \* 'synapse': 'helm-chart-opendesk-synapse'
    <<<<"s", "y", "n", "a", "p", "s", "e">>,
      <<"h", "e", "l", "m", "-", "c", "h", "a", "r", "t", "-", "o", "p", "e", "n", "d", "e", "s", "k", "-", "s", "y", "n", "a", "p", "s", "e">>>>,
    \* 'nextcloud': 'helm-chart-opendesk-nextcloud'
    <<<<"n", "e", "x", "t", "c", "l", "o", "u", "d">>,
      <<"h", "e", "l", "m", "-", "c", "h", "a", "r", "t", "-", "o", "p", "e", "n", "d", "e", "s", "k", "-", "n", "e", "x", "t", "c", "l", "o", "u", "d">>>>,
    \* 'openproject': 'helm-chart-openproject'
    <<<<"o", "p", "e", "n", "p", "r", "o", "j", "e", "c", "t">>,
      <<"h", "e", "l", "m", "-", "c", "h", "a", "r", "t", "-", "o", "p", "e", "n", "p", "r", "o", "j", "e", "c", "t">>>>,
    \* 'xwiki': 'helm-chart-xwiki'
    <<<<"x", "w", "i", "k", "i">>,
      <<"h", "e", "l", "m", "-", "c", "h", "a", "r", "t", "-", "x", "w", "i", "k", "i">>>>,
    \* 'nubus': 'helm-chart-nubus'
    <<<<"n", "u", "b", "u", "s">>,
      <<"h", "e", "l", "m", "-", "c", "h", "a", "r", "t", "-", "n", "u", "b", "u", "s">>>>,
    \* 'dovecot': 'helm-chart-dovecot'
    <<<<"d", "o", "v", "e", "c", "o", "t">>,
      <<"h", "e", "l", "m", "-", "c", "h", "a", "r", "t", "-", "d", "o", "v", "e", "c", "o", "t">>>>
>>


\* table.get(key) of a dict written as (key, value) pairs
TableGet(pairs, key) ==
    IF \E p \in pairs : p[1] = key
    THEN (CHOOSE p \in pairs : p[1] = key)[2]
    ELSE None

_map_component_to_app_directory(component_path) ==
    TableGet(component_mapping, component_path)

_find_app_directory_for_chart(chart_resource_name) ==
    TableGet(chart_to_app, chart_resource_name)

\* the component path looked up first, the chart name second
AppDirByComponentFirst(mapping) ==
    LET app_dir == _map_component_to_app_directory(mapping.resource_reference_path)
    IN  IF ~Truthy(app_dir)
        THEN _find_app_directory_for_chart(mapping.resource_resource_name)
        ELSE app_dir

\* app_dir of a matched image: the chart name looked up, and "if not
\* app_dir" the component path
AppDirOf(mapping) ==
    LET app_dir == _find_app_directory_for_chart(mapping.resource_resource_name)
    IN  IF ~Truthy(app_dir)
        THEN _map_component_to_app_directory(mapping.resource_reference_path)
        ELSE app_dir

\* the mapping None of an unmatched image
NoMapping == [resource_resource_name |-> None, resource_reference_path |-> None]

\* "for pattern, chart_name in chart_name_mappings.items(): if pattern in
\* helm_chart.lower(): return chart_name"
RECURSIVE FirstPattern(_, _)
FirstPattern(helm_chart, k) ==
    IF k > Len(chart_name_mappings) THEN None
    ELSE IF Contains(Lower(helm_chart), chart_name_mappings[k][1])
    THEN chart_name_mappings[k][2]
    ELSE FirstPattern(helm_chart, k + 1)

_match_image_to_helm_chart(deployed_image, mapping) ==
    IF mapping # NoMapping /\ Truthy(mapping.resource_resource_name)
    THEN mapping.resource_resource_name
    ELSE IF Truthy(deployed_image.helm_chart)
    THEN FirstPattern(deployed_image.helm_chart, 1)
    ELSE None

\* s.endswith(p)
EndsWith(s, p) == Len(s) >= Len(p) /\ SubSeq(s, Len(s) - Len(p) + 1, Len(s)) = p

\* the alternatives of r'^(opendesk-|ums-|matrix-)'
NamePrefixes == << <<"o", "p", "e", "n", "d", "e", "s", "k", "-">>,
                   <<"u", "m", "s", "-">>,
                   <<"m", "a", "t", "r", "i", "x", "-">> >>

\* the alternatives of r'(-release|-deployment|-statefulset)$'
NameSuffixes == << <<"-", "r", "e", "l", "e", "a", "s", "e">>,
                   <<"-", "d", "e", "p", "l", "o", "y", "m", "e", "n", "t">>,
                   <<"-", "s", "t", "a", "t", "e", "f", "u", "l", "s", "e", "t">> >>

\* re.sub(r'^(opendesk-|ums-|matrix-)', '', s): the first alternative the
\* string starts with is removed, once
RECURSIVE StripNamePrefix(_, _)
StripNamePrefix(s, k) ==
    IF k > Len(NamePrefixes) THEN s
    ELSE IF StartsWith(s, NamePrefixes[k])
    THEN SubSeq(s, Len(NamePrefixes[k]) + 1, Len(s))
    ELSE StripNamePrefix(s, k + 1)

\* re.sub(r'(-release|-deployment|-statefulset)$', '', s): '$' is the end
\* of the string or the place before its final newline
RECURSIVE StripNameSuffix(_, _)
StripNameSuffix(s, k) ==
    IF k > Len(NameSuffixes) THEN s
    ELSE IF EndsWith(s, NameSuffixes[k])
    THEN SubSeq(s, 1, Len(s) - Len(NameSuffixes[k]))
    ELSE IF EndsWith(s, NameSuffixes[k] \o NewLine)
    THEN SubSeq(s, 1, Len(s) - Len(NameSuffixes[k]) - 1) \o NewLine
    ELSE StripNameSuffix(s, k + 1)

\* ['main', 'proxy', 'sidecar']
GenericContainerNames == { <<"m", "a", "i", "n">>,
                           <<"p", "r", "o", "x", "y">>,
                           <<"s", "i", "d", "e", "c", "a", "r">> }

\* [a-z0-9-]
NameClass == LowerCase \cup Digits \cup {"-"}

\* re.sub(r'-+', '-', s)
RECURSIVE CollapseDashes(_)
CollapseDashes(s) ==
    IF Len(s) < 2 THEN s
    ELSE IF s[1] = "-" /\ s[2] = "-" THEN CollapseDashes(Tail(s))
    ELSE <<s[1]>> \o CollapseDashes(Tail(s))

\* s.strip('-')
StripDashes(s) ==
    LET inner == {k \in 1..Len(s) : s[k] # "-"}
    IN  IF inner = {} THEN <<>>
        ELSE SubSeq(s, Min(inner), CHOOSE k \in inner : \A m \in inner : m <= k)

\* name_part before it is cleaned up
NamePart(resource_name, container_name) ==
    IF container_name # resource_name /\ ~Contains(resource_name, container_name)
    THEN IF container_name \in GenericContainerNames
         THEN resource_name
         ELSE resource_name \o <<"-">> \o container_name
    ELSE resource_name

_generate_image_resource_name(deployed_image) ==
    LET resource_name == StripNameSuffix(StripNamePrefix(Lower(deployed_image.resource_name), 1), 1)
        container_name == Lower(deployed_image.container_name)
        name_part == NamePart(resource_name, container_name)
        cleaned == [i \in 1..Len(name_part) |->
                       IF name_part[i] \in NameClass THEN name_part[i] ELSE "-"]
    IN  ImageDash \o StripDashes(CollapseDashes(cleaned))

\* 'sha256:'
Sha256Colon == <<"s", "h", "a", "2", "5", "6", ":">>

\* the digest appended whenever the scan holds one
ImageReferenceWithAnyPin(deployed_image) ==
    IF Truthy(deployed_image.oci_pin)
    THEN deployed_image.oci_url \o <<":">> \o deployed_image.oci_version
             \o <<"@">> \o deployed_image.oci_pin
    ELSE deployed_image.oci_url \o <<":">> \o deployed_image.oci_version

\* image_reference of _create_image_resource_entry
image_reference(deployed_image) ==
    IF Truthy(deployed_image.oci_pin) /\ StartsWith(deployed_image.oci_pin, Sha256Colon)
    THEN deployed_image.oci_url \o <<":">> \o deployed_image.oci_version
             \o <<"@">> \o deployed_image.oci_pin
    ELSE deployed_image.oci_url \o <<":">> \o deployed_image.oci_version

_create_image_resource_entry(deployed_image) ==
    [name |-> _generate_image_resource_name(deployed_image),
     type |-> <<"o", "c", "i", "I", "m", "a", "g", "e">>,
     version |-> _validate_semantic_version(deployed_image.oci_version),
     access_type |-> <<"o", "c", "i", "A", "r", "t", "i", "f", "a", "c", "t">>,
     imageReference |-> image_reference(deployed_image)]

\* Bound of the list find_correlations hands over
MaxCorrelations == 2

\* Scanned images: (resourceName, containerName, helmChart, ociUrl, ociVersion, ociPin)
DeployedImageUniverse == {
    \* ums-portal-server / main / nubus-1.2.3 / r/portal / 1.2.3 / sha256:ab
    [resource_name  |-> <<"u", "m", "s", "-", "p", "o", "r", "t", "a", "l", "-", "s", "e", "r", "v", "e", "r">>,
     container_name |-> <<"m", "a", "i", "n">>,
     helm_chart     |-> <<"n", "u", "b", "u", "s", "-", "1", ".", "2", ".", "3">>,
     oci_url        |-> <<"r", "/", "p", "o", "r", "t", "a", "l">>,
     oci_version    |-> <<"1", ".", "2", ".", "3">>,
     oci_pin        |-> <<"s", "h", "a", "2", "5", "6", ":", "a", "b">>],
    \* ums-portal-server / sidecar / nubus-1.2.3 / r/envoy / v2 / ''
    [resource_name  |-> <<"u", "m", "s", "-", "p", "o", "r", "t", "a", "l", "-", "s", "e", "r", "v", "e", "r">>,
     container_name |-> <<"s", "i", "d", "e", "c", "a", "r">>,
     helm_chart     |-> <<"n", "u", "b", "u", "s", "-", "1", ".", "2", ".", "3">>,
     oci_url        |-> <<"r", "/", "e", "n", "v", "o", "y">>,
     oci_version    |-> <<"v", "2">>,
     oci_pin        |-> <<>>],
    \* opendesk-keycloak / keycloak / '' / r/kc / 26.0_1 / md5:ab
    [resource_name  |-> <<"o", "p", "e", "n", "d", "e", "s", "k", "-", "k", "e", "y", "c", "l", "o", "a", "k">>,
     container_name |-> <<"k", "e", "y", "c", "l", "o", "a", "k">>,
     helm_chart     |-> <<>>,
     oci_url        |-> <<"r", "/", "k", "c">>,
     oci_version    |-> <<"2", "6", ".", "0", "_", "1">>,
     oci_pin        |-> <<"m", "d", "5", ":", "a", "b">>],
    \* keycloak / Keycloak / Nubus-1.2.3 / r/kc / latest / sha256
    [resource_name  |-> <<"k", "e", "y", "c", "l", "o", "a", "k">>,
     container_name |-> <<"K", "e", "y", "c", "l", "o", "a", "k">>,
     helm_chart     |-> <<"N", "u", "b", "u", "s", "-", "1", ".", "2", ".", "3">>,
     oci_url        |-> <<"r", "/", "k", "c">>,
     oci_version    |-> <<"l", "a", "t", "e", "s", "t">>,
     oci_pin        |-> <<"s", "h", "a", "2", "5", "6">>],
    \* matrix-synapse-statefulset / nginx / '' / r/nginx / 1.25 / sha256:cd
    [resource_name  |-> <<"m", "a", "t", "r", "i", "x", "-", "s", "y", "n", "a", "p", "s", "e", "-", "s", "t", "a", "t", "e", "f", "u", "l", "s", "e", "t">>,
     container_name |-> <<"n", "g", "i", "n", "x">>,
     helm_chart     |-> <<>>,
     oci_url        |-> <<"r", "/", "n", "g", "i", "n", "x">>,
     oci_version    |-> <<"1", ".", "2", "5">>,
     oci_pin        |-> <<"s", "h", "a", "2", "5", "6", ":", "c", "d">>],
    \* Postfix_Relay-deployment / '' / postfix-1.0.0 / r/postfix / '' / ''
    [resource_name  |-> <<"P", "o", "s", "t", "f", "i", "x", "_", "R", "e", "l", "a", "y", "-", "d", "e", "p", "l", "o", "y", "m", "e", "n", "t">>,
     container_name |-> <<>>,
     helm_chart     |-> <<"p", "o", "s", "t", "f", "i", "x", "-", "1", ".", "0", ".", "0">>,
     oci_url        |-> <<"r", "/", "p", "o", "s", "t", "f", "i", "x">>,
     oci_version    |-> <<>>,
     oci_pin        |-> <<>>]
}

\* Exchange rows the images were matched to: (Resource_ResourceName, Resource_ReferencePath)
ChainRowUniverse == {
    \* helm-chart-nubus / nubus
    [resource_resource_name  |-> <<"h", "e", "l", "m", "-", "c", "h", "a", "r", "t", "-", "n", "u", "b", "u", "s">>,
     resource_reference_path |-> <<"n", "u", "b", "u", "s">>],
    \* helm-chart-intercom-service / opendesk-services
    [resource_resource_name  |-> <<"h", "e", "l", "m", "-", "c", "h", "a", "r", "t", "-", "i", "n", "t", "e", "r", "c", "o", "m", "-", "s", "e", "r", "v", "i", "c", "e">>,
     resource_reference_path |-> <<"o", "p", "e", "n", "d", "e", "s", "k", "-", "s", "e", "r", "v", "i", "c", "e", "s">>],
    \* helm-chart-opendesk-synapse / element
    [resource_resource_name  |-> <<"h", "e", "l", "m", "-", "c", "h", "a", "r", "t", "-", "o", "p", "e", "n", "d", "e", "s", "k", "-", "s", "y", "n", "a", "p", "s", "e">>,
     resource_reference_path |-> <<"e", "l", "e", "m", "e", "n", "t">>],
    \* helm-chart-foo / nubus
    [resource_resource_name  |-> <<"h", "e", "l", "m", "-", "c", "h", "a", "r", "t", "-", "f", "o", "o">>,
     resource_reference_path |-> <<"n", "u", "b", "u", "s">>],
    \* helm-chart-foo / bar
    [resource_resource_name  |-> <<"h", "e", "l", "m", "-", "c", "h", "a", "r", "t", "-", "f", "o", "o">>,
     resource_reference_path |-> <<"b", "a", "r">>],
    \* '' / nubus
    [resource_resource_name  |-> <<>>,
     resource_reference_path |-> <<"n", "u", "b", "u", "s">>]
}


nonGrpVars == <<corrVars, kroVars, exprVars, verVars, updVars>>

\* app_images before the loop
NoAppImages == [app_dir \in {} |-> <<>>]

\* what the loop over app_images has not done yet
NotPatched == [ran |-> FALSE, nubus |-> <<>>, updated_count |-> 0]

\* 'nubus'
NubusApp == <<"n", "u", "b", "u", "s">>

\* image_data_list as the patcher reads it: the chart of each item and its
\* image resource
RECURSIVE ImageDataList(_, _)
ImageDataList(items, k) ==
    IF k > Len(items) THEN <<>>
    ELSE <<Item(_match_image_to_helm_chart(items[k].deployed_image, items[k].mapping),
                items[k].image_resource)>> \o ImageDataList(items, k + 1)

\* find_correlations returns one more entry: an image and the row it was
\* matched to, or None
LoadCorrelation ==
    /\ gpc = "correlate"
    /\ Len(to_group) < MaxCorrelations
    /\ \E deployed_image \in DeployedImageUniverse :
       \E mapping \in ChainRowUniverse \cup {NoMapping} :
           to_group' = Append(to_group,
               [deployed_image |-> deployed_image, mapping |-> mapping])
    /\ UNCHANGED <<app_images, warnings, corr_idx, gpc, patched>>
    /\ UNCHANGED nonGrpVars

\* app_images = {}, and the loop over the correlations begins
StartGrouping ==
    /\ gpc = "correlate"
    /\ gpc' = "group"
    /\ corr_idx' = 1
    /\ app_images' = NoAppImages
    /\ warnings' = <<>>
    /\ UNCHANGED <<to_group, patched>>
    /\ UNCHANGED nonGrpVars

\* one round of "for deployed_image, mapping, reason in correlations"
GroupImage ==
    /\ gpc = "group"
    /\ corr_idx <= Len(to_group)
    /\ LET deployed_image == to_group[corr_idx].deployed_image
           mapping == to_group[corr_idx].mapping
       IN  IF mapping # NoMapping
           THEN \E app_dir \in {AppDirOf(mapping)} :
                IF Truthy(app_dir)
                THEN /\ app_images' =
                            [d \in DOMAIN app_images \cup {app_dir} |->
                                IF d = app_dir
                                THEN Append(IF d \in DOMAIN app_images
                                            THEN app_images[d] ELSE <<>>,
                                            [image_resource |-> _create_image_resource_entry(deployed_image),
                                             deployed_image |-> deployed_image,
                                             mapping |-> mapping])
                                ELSE app_images[d]]
                     /\ warnings' = warnings
                ELSE /\ app_images' = app_images
                     /\ warnings' = Append(warnings,
                            [text |-> "No app directory mapping found", index |-> corr_idx])
           ELSE /\ app_images' = app_images
                /\ warnings' = Append(warnings,
                       [text |-> "Unmatched image", index |-> corr_idx])
    /\ corr_idx' = corr_idx + 1
    /\ UNCHANGED <<to_group, gpc, patched>>
    /\ UNCHANGED nonGrpVars

\* the loop "for app_dir, image_data in app_images.items()" in a tree
\* whose only manifest is that of the app nubus
UpdateTargetGroups ==
    /\ gpc = "group"
    /\ corr_idx > Len(to_group)
    /\ gpc' = "done"
    /\ IF NubusApp \in DOMAIN app_images
       THEN \E done \in {_update_component_constructor_file(NubusManifest,
                             ImageDataList(app_images[NubusApp], 1))} :
                patched' = [ran |-> TRUE, nubus |-> done.content,
                            updated_count |-> IF done.ok THEN 1 ELSE 0]
       ELSE patched' = [ran |-> TRUE, nubus |-> NubusManifest, updated_count |-> 0]
    /\ UNCHANGED <<to_group, app_images, warnings, corr_idx>>
    /\ UNCHANGED nonGrpVars

GrpNext == LoadCorrelation \/ StartGrouping \/ GroupImage \/ UpdateTargetGroups

(***************************************************************************)
(* Claims about the grouping and the image resources                       *)
(***************************************************************************)
\* the entries of the list the loop has been through
Processed == 1..(corr_idx - 1)

\* entry i is a matched image
Matched(i) == to_group[i].mapping # NoMapping

\* the places (app directory, position) of the items in app_images
Places == UNION {{<<d, k>> : k \in 1..Len(app_images[d])} : d \in DOMAIN app_images}

\* the places of the items made of the image and row of entry i
PlacesOf(i) ==
    {p \in Places :
        /\ app_images[p[1]][p[2]].deployed_image = to_group[i].deployed_image
        /\ app_images[p[1]][p[2]].mapping = to_group[i].mapping}

\* the entries gone through that hold the image and row of entry i
SameAs(i) ==
    {j \in Processed :
        /\ to_group[j].deployed_image = to_group[i].deployed_image
        /\ to_group[j].mapping = to_group[i].mapping}

HasKey(pairs, key) == \E p \in pairs : p[1] = key
ValueOf(pairs, key) == (CHOOSE p \in pairs : p[1] = key)[2]

\* the target group the tables give a row: the chart-name table entry of
\* its resource name, otherwise the component-path table entry of its
\* reference path, otherwise none
TargetByTables(mapping) ==
    IF HasKey(chart_to_app, mapping.resource_resource_name)
    THEN ValueOf(chart_to_app, mapping.resource_resource_name)
    ELSE IF HasKey(component_mapping, mapping.resource_reference_path)
    THEN ValueOf(component_mapping, mapping.resource_reference_path)
    ELSE None

\* C25: every matched image the loop has been through lies in the group
\* that the chart-name table gives the resource name of its row, or, when
\* that table has no entry, in the group the component-path table gives the
\* row's reference path, and in no other group; when neither table has an
\* entry the image was warned about and no group holds an item for it, so
\* that no manifest update receives it (and a run in which that is so for
\* every matched image leaves the manifest as it was); the loop goes on to
\* the end of the list
C25_TargetGroupFromTables ==
    /\ \A i \in Processed :
          Matched(i) =>
              LET target == TargetByTables(to_group[i].mapping)
              IN  IF target # None
                  THEN /\ PlacesOf(i) # {}
                       /\ \A p \in PlacesOf(i) : p[1] = target
                  ELSE /\ PlacesOf(i) = {}
                       /\ \E k \in 1..Len(warnings) :
                              warnings[k] = [text |-> "No app directory mapping found",
                                             index |-> i]
    /\ patched.ran =>
          /\ corr_idx = Len(to_group) + 1
          /\ (\A i \in Processed :
                  Matched(i) => TargetByTables(to_group[i].mapping) = None)
                 => patched.nubus = NubusManifest /\ patched.updated_count = 0

\* a run that warned about its first image and put the second into the
\* group of its chart name although its reference path names another group
C25_Witness ==
    /\ patched.ran
    /\ Len(to_group) = 2
    /\ Matched(1) /\ TargetByTables(to_group[1].mapping) = None
    /\ Matched(2)
    /\ HasKey(chart_to_app, to_group[2].mapping.resource_resource_name)
    /\ HasKey(component_mapping, to_group[2].mapping.resource_reference_path)
    /\ ValueOf(chart_to_app, to_group[2].mapping.resource_resource_name)
           # ValueOf(component_mapping, to_group[2].mapping.resource_reference_path)

\* the image reference of a deployed image: ociUrl ':' ociVersion as the
\* scan holds it, and '@' ociPin exactly when ociPin starts with 'sha256:'
ReferenceOf(deployed_image) ==
    deployed_image.oci_url \o <<":">> \o deployed_image.oci_version
        \o (IF StartsWith(deployed_image.oci_pin, Sha256Colon)
            THEN <<"@">> \o deployed_image.oci_pin ELSE <<>>)

\* C26: every item of every group has type 'ociImage', access type
\* 'ociArtifact', the validated version of its image's ociVersion as its
\* version and ociUrl ':' the ociVersion of the scan, followed by '@' ociPin
\* exactly when ociPin starts with 'sha256:', as its imageReference, and no
\* item belongs to an unmatched image; the items made of an image and its
\* row lie in one group and are as many as the entries gone through that
\* hold this image and row when the row has a target group, and none
\* otherwise
C26_OneRecordPerGroupedImage ==
    /\ \A p \in Places :
          LET item == app_images[p[1]][p[2]]
          IN  /\ item.mapping # NoMapping
              /\ item.image_resource.type = <<"o", "c", "i", "I", "m", "a", "g", "e">>
              /\ item.image_resource.access_type
                     = <<"o", "c", "i", "A", "r", "t", "i", "f", "a", "c", "t">>
              /\ item.image_resource.version
                     = _validate_semantic_version(item.deployed_image.oci_version)
              /\ item.image_resource.imageReference = ReferenceOf(item.deployed_image)
    /\ \A i \in Processed :
          /\ \A p, q \in PlacesOf(i) : p[1] = q[1]
          /\ Cardinality(PlacesOf(i)) =
                 IF Matched(i) /\ TargetByTables(to_group[i].mapping) # None
                 THEN Cardinality(SameAs(i)) ELSE 0

\* a finished loop with an image whose digest starts with 'sha256:' and an
\* image whose digest does not and whose version had to be sanitized, both
\* in groups
C26_Witness ==
    /\ patched.ran
    /\ \E p, q \in Places :
          LET a == app_images[p[1]][p[2]]
              b == app_images[q[1]][q[2]]
          IN  /\ StartsWith(a.deployed_image.oci_pin, Sha256Colon)
              /\ b.deployed_image.oci_pin # <<>>
              /\ ~StartsWith(b.deployed_image.oci_pin, Sha256Colon)
              /\ b.image_resource.version # b.deployed_image.oci_version

\* the start of the first line of an image block: '      - name: image-'
ImageNameLine == base_indent \o <<"-", " ", "n", "a", "m", "e", ":", " ">> \o ImageDash

\* the images of a group differ pairwise in resource name or container name
DifferPairwise(items) ==
    \A a, b \in 1..Len(items) :
        a # b => \/ items[a].deployed_image.resource_name
                        # items[b].deployed_image.resource_name
                 \/ items[a].deployed_image.container_name
                        # items[b].deployed_image.container_name

\* C30: within a group, the image resources of two deployed images that
\* differ in resource name or container name have different names, and the
\* manifest patched with a group of such images holds no two image blocks
\* with the same name
C30_DistinctImagesGetDistinctNames ==
    /\ \A d \in DOMAIN app_images :
       \A a, b \in 1..Len(app_images[d]) :
           (\/ app_images[d][a].deployed_image.resource_name
                   # app_images[d][b].deployed_image.resource_name
            \/ app_images[d][a].deployed_image.container_name
                   # app_images[d][b].deployed_image.container_name)
               => app_images[d][a].image_resource.name # app_images[d][b].image_resource.name
    /\ (patched.ran /\ NubusApp \in DOMAIN app_images
            /\ DifferPairwise(app_images[NubusApp]))
           => \A a, b \in 1..Len(patched.nubus) :
                  (a # b /\ StartsWith(patched.nubus[a], ImageNameLine))
                      => patched.nubus[a] # patched.nubus[b]

(***************************************************************************)
(* Specifications                                                          *)
(***************************************************************************)
\* Nothing loaded, nothing analysed
Init ==
    /\ helm_mappings = <<>>
    /\ deployed_images = <<>>
    /\ correlations = <<>>
    /\ best_match = 0
    /\ match_reason = NoMatchFound
    /\ img_idx = 0
    /\ map_idx = 0
    /\ cpc = "load"
    /\ resources = <<>>
    /\ summary = NoSummary
    /\ analysis = NoAnalysis
    /\ expression = <<>>
    /\ pieces = 0
    /\ extracted = NotExtracted
    /\ version = <<>>
    /\ validated = <<>>
    /\ revalidated = <<>>
    /\ vpc = "input"
    /\ files = [element |-> ValidHeader, nubus |-> NubusManifest]
    /\ files_before = [element |-> ValidHeader, nubus |-> NubusManifest]
    /\ image_data = <<>>
    /\ upc = "edit"
    /\ group_idx = 1
    /\ updated_count = 0
    /\ reports = <<>>
    /\ writes = {}
    /\ answer = None
    /\ outcome = "running"
    /\ run = 1
    /\ to_group = <<>>
    /\ app_images = NoAppImages
    /\ warnings = <<>>
    /\ corr_idx = 0
    /\ gpc = "correlate"
    /\ patched = NotPatched

SpecCorr == Init /\ [][CorrNext]_vars

SpecSim == Init /\ [][SimNext]_vars

SpecPat == Init /\ [][PatNext]_vars

SpecKro == Init /\ [][KroNext]_vars

SpecJoin == Init /\ [][JoinNext]_vars

SpecExpr == Init /\ [][ExprNext]_vars

SpecVer == Init /\ [][VerNext]_vars

SpecUpd == Init /\ [][UpdNext]_vars

SpecGrp == Init /\ [][GrpNext]_vars

====
